---- MODULE Spec2Model ----
(***************************************************************************)
(* Nextdoor Deep Search: request template capture (webRequest listeners),  *)
(* the primary replay run (startSearch), the tool-invoked replay           *)
(* (executeSearchWithProgress / fetchThreadDetailsWithProgress) and the    *)
(* agent runs (startAnalysis / handleChatMessage) of the background        *)
(* script, as one state machine over the fields of `state`.                *)
(***************************************************************************)
EXTENDS Integers, Sequences, FiniteSets, TLC

\* ------------------------------------------------------------------ bounds
MaxRid == 2          \* requestIds the browser hands out: 1..MaxRid
MaxIds == 2          \* identifiers one search response yields: 0..MaxIds
MaxSearchRuns == 2   \* startSearch invocations that can coexist
MaxAgentRuns == 2    \* startAnalysis/handleChatMessage invocations that can coexist
MaxHist == 2         \* chat turns in state.chatHistory when a chat request is sent
MaxAccum == 3        \* entries of state.accumulatedSearches when a tool call is requested
MaxCalls == 1        \* tool calls in one model response

\* ------------------------------------------------------- program constants
MAX_TOOL_ITERATIONS == 3
TOOL_ID_LIMIT == 10
SENTINEL_TAB == -1
PAGE_TAB == 1

Rids == 1..MaxRid
Kinds == {"searchPost", "feedItem"}
SearchRuns == 1..MaxSearchRuns
AgentRuns == 1..MaxAgentRuns

VARIABLES
  captured,            \* state.captured: kind -> template
  pending,             \* pendingRequestBodies: requestId -> pending body
  stored,              \* browser.storage.local.capturedTemplates
  isRunning,           \* state.isRunning
  progress,            \* state.progress
  chatHistory,         \* state.chatHistory
  accumulatedSearches, \* state.accumulatedSearches
  isAnalyzing,         \* state.isAnalyzing
  hasConfig,           \* browser.storage.local.aiConfig is usable
  hasSearchData,       \* browser.storage.local.lastSearchData.threads exists
  search,              \* the invocations of startSearch
  agent,               \* the invocations of startAnalysis / handleChatMessage
  ev,                  \* history: the last handler that ran
  thread,              \* one detail response being turned into a thread
  stream,              \* one streamCompletion call reading its response
  fmt,                 \* one formatToolResultMessages call
  request,             \* the content script's latest fetch through the page
  badge                \* what the latest updateBadge() call showed

vars == <<captured, pending, stored, isRunning, progress, chatHistory,
          accumulatedSearches, isAnalyzing, hasConfig, hasSearchData,
          search, agent, ev, thread, stream, fmt, request, badge>>

captureVars == <<captured, pending, stored>>
sessionVars == <<isRunning, progress>>
chatVars == <<chatHistory, accumulatedSearches, isAnalyzing>>
storageVars == <<hasConfig, hasSearchData>>
fnVars == <<thread, stream, fmt, request>>
restVars == <<fnVars, badge>>

\* ------------------------------------------------------------------ values
\* A template keeps, as history, the requestId it was built from and who
\* issued that request ("user": the user's browsing; "replay": a request
\* the extension sent through the page's fetch); hash is the payload's
\* persistedQuery.sha256Hash ("undefined" if the payload has none), headers
\* the names of the request headers as the browser reported them.
NoTemplate == [rid |-> 0, origin |-> "none", hash |-> "none", headers |-> {}]
NoPending == [kind |-> "none", origin |-> "none", hasHash |-> FALSE]

\* request header names as the browser reports them: over HTTP/1.1 and over
\* HTTP/2 (lower case)
Http1Headers == {"Host", "Connection", "Content-Length", "Cookie",
                 "content-type", "x-csrftoken"}
Http2Headers == {"host", "content-length", "cookie", "content-type", "x-csrftoken"}

\* updateBadge(): the badge shows whether a search is running and whether
\* both templates are there (state.uti and state.isOnNextdoor are taken as set)
updateBadge(running, templates) ==
  [running |-> running,
   hasAllTemplates |-> /\ templates["searchPost"] # NoTemplate
                       /\ templates["feedItem"] # NoTemplate]

\* no formatToolResultMessages call, no fetch by the content script
NoFmt == [backend |-> "none", toolCalls |-> <<>>, results |-> <<>>,
          pc |-> "none", messages |-> <<>>]
NoRequest == [kind |-> "none", headers |-> {}, credentials |-> "none"]
NoProgress == [current |-> 0, total |-> 0, errors |-> 0]
NoEvent == [op |-> "init", arg |-> 0, acc |-> FALSE]

\* op: the listener or message handler that ran last; arg: the tab id of an
\* observation, the run a request started; acc: whether it passed its guards
Event(op, arg, acc) == [op |-> op, arg |-> arg, acc |-> acc]

\* the last step was the continuation of a run after an await
Continued == Event("continued", 0, TRUE)

Min(a, b) == IF a < b THEN a ELSE b

\* per-run trace entries (history): what the run did, in order
Tr(what, item) == [what |-> what, item |-> item]

\* A replay run: n identifiers, i of them finished, the ids in threads and in
\* errors; history: failed (the detail fetches that failed), inflight (the
\* FETCH_FEEDITEM requests sent and not yet answered), trace, and notices
\* (the terminal notices sent to the popup). The locals of a run that has
\* returned are gone: only pc and notices outlive it.

IdleSearch ==
  [pc |-> "idle", n |-> 0, i |-> 0, threads |-> <<>>, errors |-> <<>>,
   failed |-> 0, inflight |-> {}, trace |-> <<>>, notices |-> <<>>]

IdleTool ==
  [pc |-> "none", n |-> 0, i |-> 0, threads |-> <<>>, errors |-> <<>>,
   failed |-> 0, inflight |-> {}, trace |-> <<>>, notices |-> <<>>]

\* no error has reached the catch block of the run
NoError == [name |-> "none", provider |-> "none", statusCode |-> 0]

\* toolRounds (history): the model responses of this run that asked for tools;
\* ui (history): the notices this run sent to the results page; asked and
\* results: the number of tool calls of the latest model response and the
\* tool-result turns pushed to `messages` since it arrived; error (history):
\* the LLMProviderError its catch block received
IdleAgent ==
  [pc |-> "idle", kind |-> "none", iterations |-> 0, toolRounds |-> 0,
   calls |-> <<>>, tool |-> IdleTool, ui |-> <<>>,
   asked |-> 0, results |-> <<>>, error |-> NoError]

\* no detail response is being processed, no response stream is being read
NoThread == [post |-> <<>>, pc |-> "none", comments |-> <<>>, count |-> 0]
NoStream ==
  [backend |-> "none", lines |-> <<>>, pos |-> 0, out |-> <<>>, pc |-> "none",
   tail |-> [text |-> "blank", parses |-> FALSE, content |-> "", done |-> FALSE,
             event |-> "content_block_delta"]]

\* ---------------------------------------------------------- initial states
InitBackground ==
  /\ pending = [r \in Rids |-> NoPending]
  /\ isRunning = FALSE
  /\ progress = NoProgress
  /\ chatHistory = <<>>
  /\ accumulatedSearches = <<>>
  /\ isAnalyzing = FALSE
  /\ search = [s \in SearchRuns |-> IdleSearch]
  /\ agent = [a \in AgentRuns |-> IdleAgent]
  /\ ev = NoEvent

InitCommon ==
  /\ InitBackground
  /\ thread = NoThread
  /\ stream = NoStream
  /\ fmt = NoFmt
  /\ request = NoRequest

\* first start: nothing in storage, so initializeState loads nothing
Init ==
  /\ InitCommon
  /\ stored = [k \in Kinds |-> NoTemplate]
  /\ captured = stored
  /\ badge = updateBadge(FALSE, captured)
  /\ hasConfig = FALSE
  /\ hasSearchData = FALSE

\* a later start: initializeState loads whatever an earlier session left
\* in storage (templates that session captured from the user's browsing)
LoadedTemplate ==
  [rid |-> 0, origin |-> "user", hash |-> "sha256", headers |-> Http1Headers]

InitLoaded ==
  /\ InitCommon
  /\ stored \in [Kinds -> {NoTemplate, LoadedTemplate}]
  /\ captured = stored
  /\ badge = updateBadge(FALSE, captured)
  /\ hasConfig \in BOOLEAN
  /\ hasSearchData \in BOOLEAN

\* =========================================================================
\* Request template capture
\* =========================================================================

\* what an observed request looks like to onBeforeRequest
\* (hasHash: the parsed payload has extensions.persistedQuery.sha256Hash)
Shape(hasRaw, urlKind, parseOk, hasHash) ==
  [hasRaw |-> hasRaw, urlKind |-> urlKind, parseOk |-> parseOk, hasHash |-> hasHash]

Shapes ==
  {Shape(TRUE, k, TRUE, TRUE) : k \in Kinds} \cup
  {Shape(FALSE, "searchPost", TRUE, TRUE),
   Shape(TRUE, "other", TRUE, TRUE),
   Shape(TRUE, "feedItem", FALSE, FALSE)}

\* a replay request of this kind is on the wire (sent by a startSearch run
\* or by a tool-invoked replay through the content script)
ReplayInFlight(kind) ==
  \/ \E s \in SearchRuns :
       \/ kind = "searchPost" /\ search[s].pc = "awaitSearch"
       \/ kind = "feedItem" /\ search[s].pc = "awaitDetail"
  \/ \E a \in AgentRuns :
       \/ kind = "searchPost" /\ agent[a].tool.pc = "awaitSearch"
       \/ kind = "feedItem" /\ agent[a].tool.pc = "awaitDetail"

\* who can have issued a request the browser reports with this tab and shape:
\* the extension's own context has the sentinel tab id; a page request comes
\* from the user's browsing or from a replay sent through the page's fetch
Origins(tabId, shape) ==
  IF tabId = SENTINEL_TAB THEN {"ext"}
  ELSE {"user"} \cup
       (IF shape.hasRaw /\ shape.parseOk /\ shape.urlKind \in Kinds
           /\ ReplayInFlight(shape.urlKind)
          THEN {"replay"} ELSE {})

\* faulty variant: the early return on state.isRunning is missing
BodyAcceptedWhileRunning(tabId, shape) ==
  /\ tabId # SENTINEL_TAB
  /\ shape.hasRaw
  /\ shape.urlKind \in Kinds
  /\ shape.parseOk

\* onBeforeRequest keeps the body only when every early return is passed
BodyAccepted(tabId, shape) ==
  /\ tabId # SENTINEL_TAB
  /\ shape.hasRaw
  /\ shape.urlKind \in Kinds
  /\ shape.parseOk
  /\ ~isRunning

OnBeforeRequest(rid, tabId, shape, origin) ==
  /\ origin \in Origins(tabId, shape)
  /\ IF BodyAccepted(tabId, shape)
       THEN pending' = [pending EXCEPT ![rid] =
                          [kind |-> shape.urlKind, origin |-> origin,
                           hasHash |-> shape.hasHash]]
       ELSE UNCHANGED pending
  /\ ev' = Event("body", tabId, BodyAccepted(tabId, shape))
  /\ UNCHANGED restVars
  /\ UNCHANGED <<captured, stored, sessionVars, chatVars, storageVars,
                 search, agent>>

\* setTimeout(() => pendingRequestBodies.delete(requestId), 5000): every
\* entry is stored together with its timer, so an entry that is present can
\* always expire; a timer that finds no entry changes nothing
Expire(rid) ==
  /\ pending[rid] # NoPending
  /\ pending' = [pending EXCEPT ![rid] = NoPending]
  /\ ev' = Event("expire", 0, TRUE)
  /\ UNCHANGED restVars
  /\ UNCHANGED <<captured, stored, sessionVars, chatVars, storageVars,
                 search, agent>>

\* the headers listener finds a pending body for this request
HasPending(rid, tabId) ==
  /\ tabId # SENTINEL_TAB
  /\ pending[rid] # NoPending

\* an observation by the headers listener: tab, whether a pending body was
\* found, the requestId and the header names
Observed(tabId, acc, rid, headers) ==
  [op |-> "headers", arg |-> tabId, acc |-> acc, rid |-> rid, headers |-> headers]

\* const hash = pending.payload?.extensions?.persistedQuery?.sha256Hash
PayloadHash(p) == IF p.hasHash THEN "sha256" ELSE "undefined"

\* const template = { hash, headers, payload: pending.payload, capturedAt }
Template(rid, p, headers) ==
  [rid |-> rid, origin |-> p.origin, hash |-> PayloadHash(p), headers |-> headers]

\* faulty variant: the entry stays in the map
NotConsumed(rid) == pending

\* pendingRequestBodies.delete(details.requestId)
Consumed(rid) == [pending EXCEPT ![rid] = NoPending]

\* faulty variant: the template is stored under both kinds
StoreTemplateBoth(kind, template) == [k \in Kinds |-> template]

\* state.captured.searchPost = template / state.captured.feedItem = template
StoreTemplate(kind, template) == [captured EXCEPT ![kind] = template]

\* faulty variant: a template is built from the headers alone
OnSendHeadersUnmatched(rid, tabId, headers) ==
  /\ pending' = Consumed(rid)
  /\ captured' = StoreTemplate("searchPost",
                               Template(rid, [origin |-> "user", hasHash |-> TRUE], headers))
  /\ stored' = captured'
  /\ badge' = updateBadge(isRunning, captured')
  /\ ev' = Event("headers", tabId, HasPending(rid, tabId))
  /\ UNCHANGED fnVars
  /\ UNCHANGED <<sessionVars, chatVars, storageVars, search, agent>>

OnSendHeaders(rid, tabId, headers) ==
  /\ IF HasPending(rid, tabId)
       THEN /\ pending' = Consumed(rid)
            /\ captured' = StoreTemplate(pending[rid].kind,
                                         Template(rid, pending[rid], headers))
            /\ stored' = captured'        \* persistTemplates()
            /\ badge' = updateBadge(isRunning, captured')
       ELSE UNCHANGED <<pending, captured, stored, badge>>
  /\ ev' = Observed(tabId, HasPending(rid, tabId), rid, headers)
  /\ UNCHANGED fnVars
  /\ UNCHANGED <<sessionVars, chatVars, storageVars, search, agent>>

CaptureNext ==
  \/ \E rid \in Rids, tabId \in {SENTINEL_TAB, PAGE_TAB}, shape \in Shapes,
        origin \in {"user", "replay", "ext"} :
       OnBeforeRequest(rid, tabId, shape, origin)
  \/ \E rid \in Rids : Expire(rid)
  \/ \E rid \in Rids, tabId \in {SENTINEL_TAB, PAGE_TAB} :
       OnSendHeaders(rid, tabId, Http1Headers)

\* =========================================================================
\* Primary replay run: START_SEARCH and startSearch
\* =========================================================================

\* a FETCH_FEEDITEM outcome: "post" (success, the response holds the post),
\* "nopost" (success, data.feedItem.post absent), "fail" (success false, or
\* sendMessage throws)
Outcomes == {"post", "nopost", "fail"}
Failed(out) == out = "fail"

\* the slot a new startSearch invocation occupies
FreeSearch(s) == search[s].pc \in {"idle", "done"}
NewSearch == CHOOSE s \in SearchRuns :
               FreeSearch(s) /\ \A t \in SearchRuns : FreeSearch(t) => s <= t

\* faulty variant: START_SEARCH is never rejected
SearchNeverRejected == FALSE

\* case 'START_SEARCH': if (state.isRunning) -> ERROR response
SearchRejected == isRunning

\* faulty variant: the next item's request is sent without awaiting this one
IssueDetailEager(run, item) ==
  [run EXCEPT !.pc = "awaitDetail",
              !.inflight = @ \cup {item, item + 1},
              !.trace = @ \o <<Tr("fetchStart", item), Tr("fetchStart", item + 1)>>]

\* sendMessage(FETCH_FEEDITEM) for one item, then await the response
IssueDetail(run, item) ==
  [run EXCEPT !.pc = "awaitDetail",
              !.inflight = @ \cup {item},
              !.trace = Append(@, Tr("fetchStart", item))]

\* the run ends: what it told the popup last, and the flag is released
EndSearch(run, notice) ==
  [IdleSearch EXCEPT !.pc = "done", !.notices = Append(run.notices, notice)]

StartSearchMsg ==
  IF SearchRejected
    THEN /\ ev' = Event("startSearch", 0, FALSE)
         /\ UNCHANGED restVars
         /\ UNCHANGED <<captureVars, sessionVars, chatVars, storageVars,
                        search, agent>>
    ELSE /\ \E s \in SearchRuns : FreeSearch(s)
         /\ progress' = NoProgress
         /\ chatHistory' = <<>>
         /\ accumulatedSearches' = <<>>
         /\ IF captured["searchPost"] = NoTemplate \/ captured["feedItem"] = NoTemplate
              THEN /\ isRunning' = FALSE
                   /\ badge' = updateBadge(FALSE, captured)
                   /\ search' = [search EXCEPT ![NewSearch] =
                                   EndSearch(IdleSearch, "ERROR")]
              ELSE /\ isRunning' = TRUE
                   /\ badge' = updateBadge(TRUE, captured)
                   /\ search' = [search EXCEPT ![NewSearch] =
                                   [IdleSearch EXCEPT !.pc = "tabsQuery"]]
         /\ ev' = Event("startSearch", NewSearch, TRUE)
         /\ UNCHANGED fnVars
         /\ UNCHANGED <<captureVars, isAnalyzing, storageVars, agent>>

\* await browser.tabs.query(...) resolves; the query is chosen; FETCH_SEARCH is sent
SearchTabsQueried(s, hasTab, hasQuery) ==
  /\ search[s].pc = "tabsQuery"
  /\ IF hasTab /\ hasQuery
       THEN /\ search' = [search EXCEPT ![s] =
                            [@ EXCEPT !.pc = "awaitSearch",
                                      !.trace = Append(@, Tr("searchStart", 0))]]
            /\ UNCHANGED <<isRunning, badge>>
       ELSE /\ search' = [search EXCEPT ![s] = EndSearch(@, "ERROR")]
            /\ isRunning' = FALSE
            /\ badge' = updateBadge(FALSE, captured)
  /\ ev' = Continued
  /\ UNCHANGED fnVars
  /\ UNCHANGED <<captureVars, progress, chatVars, storageVars, agent>>

\* the FETCH_SEARCH response arrives with n post ids
SearchResponded(s, ok, n) ==
  /\ search[s].pc = "awaitSearch"
  /\ IF ~ok
       THEN /\ search' = [search EXCEPT ![s] = EndSearch(@, "ERROR")]
            /\ isRunning' = FALSE
            /\ badge' = updateBadge(FALSE, captured)
            /\ UNCHANGED progress
       ELSE IF n = 0
         THEN /\ search' = [search EXCEPT ![s] = EndSearch(@, "COMPLETE")]
              /\ isRunning' = FALSE
              /\ badge' = updateBadge(FALSE, captured)
              /\ UNCHANGED progress
         ELSE /\ progress' = [progress EXCEPT !.total = n]
              /\ search' = [search EXCEPT ![s] =
                   IssueDetail([@ EXCEPT !.n = n,
                                         !.trace = Append(@, Tr("progress", 0))], 1)]
              /\ UNCHANGED <<isRunning, badge>>
  /\ ev' = Continued
  /\ UNCHANGED fnVars
  /\ UNCHANGED <<captureVars, chatVars, storageVars, agent>>

\* faulty variant: the wait follows the last item too
MoreItemsOrLast(item, n) == item <= n

\* if (i < postIds.length - 1): an item that is not the last one is followed
\* by the rate-limit wait (item counts from 1, i from 0)
MoreItems(item, n) == item < n

\* lines 698-726: what one FETCH_FEEDITEM outcome adds to threads / errors
AfterDetail(run, item, out) ==
  [run EXCEPT !.i = item,
              !.inflight = @ \ {item},
              !.failed = IF Failed(out) THEN @ + 1 ELSE @,
              !.threads = IF out = "post" THEN Append(@, item) ELSE @,
              !.errors = IF Failed(out) THEN Append(@, item) ELSE @]

\* the FETCH_FEEDITEM response for the current item arrives (or the send throws)
DetailResponded(s, out) ==
  LET item == search[s].i + 1
      run == AfterDetail(search[s], item, out)
      told == [run EXCEPT !.trace = @ \o <<Tr("fetchEnd", item), Tr("progress", item)>>]
  IN /\ search[s].pc = "awaitDetail"
     /\ item \in search[s].inflight
     /\ progress' = [progress EXCEPT
                       !.errors = IF Failed(out) THEN @ + 1 ELSE @,
                       !.current = item]
     /\ search' = [search EXCEPT ![s] =
                     IF MoreItems(item, told.n)
                       THEN [told EXCEPT !.pc = "delay"]
                       ELSE [told EXCEPT !.pc = "awaitSave"]]
     /\ ev' = Continued
     /\ UNCHANGED restVars
     /\ UNCHANGED <<captureVars, isRunning, chatVars, storageVars, agent>>

\* await new Promise(r => setTimeout(r, 150)) resolves; the next item is fetched
SearchDelayed(s) ==
  /\ search[s].pc = "delay"
  /\ search' = [search EXCEPT ![s] =
                  IssueDetail([@ EXCEPT !.trace = Append(@, Tr("delay", search[s].i))],
                              search[s].i + 1)]
  /\ ev' = Continued
  /\ UNCHANGED restVars
  /\ UNCHANGED <<captureVars, sessionVars, chatVars, storageVars, agent>>

\* await browser.storage.local.set({lastSearchData}) settles
SearchSaved(s, ok) ==
  /\ search[s].pc = "awaitSave"
  /\ IF ok
       THEN /\ search' = [search EXCEPT ![s] =
                            [IdleSearch EXCEPT !.pc = "awaitTab",
                                               !.notices = <<"COMPLETE">>]]
            /\ hasSearchData' = TRUE
            /\ UNCHANGED <<isRunning, badge>>
       ELSE /\ search' = [search EXCEPT ![s] = EndSearch(@, "ERROR")]
            /\ isRunning' = FALSE
            /\ badge' = updateBadge(FALSE, captured)
            /\ UNCHANGED hasSearchData
  /\ ev' = Continued
  /\ UNCHANGED fnVars
  /\ UNCHANGED <<captureVars, progress, chatVars, hasConfig, agent>>

\* await browser.tabs.create(results page) settles
SearchTabCreated(s, ok) ==
  /\ search[s].pc = "awaitTab"
  /\ search' = [search EXCEPT ![s] =
                  IF ok THEN [@ EXCEPT !.pc = "done"] ELSE EndSearch(@, "ERROR")]
  /\ isRunning' = FALSE
  /\ badge' = updateBadge(FALSE, captured)
  /\ ev' = Continued
  /\ UNCHANGED fnVars
  /\ UNCHANGED <<captureVars, progress, chatVars, storageVars, agent>>

\* the continuations of startSearch, for responses with n \in ns identifiers
\* and detail outcomes in outs
SearchSteps(ns, outs) ==
  \/ \E s \in SearchRuns, hasTab \in BOOLEAN, hasQuery \in BOOLEAN :
       SearchTabsQueried(s, hasTab, hasQuery)
  \/ \E s \in SearchRuns, ok \in BOOLEAN, n \in ns : SearchResponded(s, ok, n)
  \/ \E s \in SearchRuns, out \in outs : DetailResponded(s, out)
  \/ \E s \in SearchRuns : SearchDelayed(s)
  \/ \E s \in SearchRuns, ok \in BOOLEAN : SearchSaved(s, ok)
  \/ \E s \in SearchRuns, ok \in BOOLEAN : SearchTabCreated(s, ok)

\* =========================================================================
\* Agent runs: START_ANALYSIS / SEND_CHAT_MESSAGE, startAnalysis,
\* handleChatMessage and the tool-invoked replay
\* =========================================================================

\* a tool call as completionWithTools returns it: its name, and whether its
\* arguments string parses
Calls == {[name |-> nm, args |-> ar] :
            nm \in {"searchPosts", "other"}, ar \in {"ok", "bad"}}

CallSeqs == UNION {[1..k -> Calls] : k \in 1..MaxCalls}

FreeAgent(a) == agent[a].pc \in {"idle", "done"}
NewAgent == CHOOSE a \in AgentRuns :
              FreeAgent(a) /\ \A b \in AgentRuns : FreeAgent(b) => a <= b

\* if (state.isAnalyzing) throw ...
AgentRejected == isAnalyzing

Tell(ag, notice) == [ag EXCEPT !.ui = Append(@, notice)]

\* the run leaves its try block: catch sends the error notice, finally follows
AgentThrows(ag) ==
  [Tell(ag, "ERROR") EXCEPT !.pc = "done", !.calls = <<>>,
                            !.asked = 0, !.results = <<>>]

\* while (iterations < MAX_TOOL_ITERATIONS) { iterations++; completionWithTools }
\* and, after the loop, the apologetic chunk
LoopBound == MAX_TOOL_ITERATIONS

NextRound(ag) ==
  IF ag.iterations < LoopBound
    THEN [ag EXCEPT !.pc = "awaitLLM", !.iterations = @ + 1, !.calls = <<>>]
    ELSE [Tell(ag, "APOLOGY") EXCEPT !.pc = "done", !.calls = <<>>,
                                     !.asked = 0, !.results = <<>>]

\* messages.push(...toolMessages), where toolMessages is what
\* formatToolResultMessages(response.toolCalls, [one result]) returns: an
\* assistant turn carrying all `asked` calls of the response, and the result
\* turn of the first of `calls`, which is call number asked - Len(calls) + 1
ToolResult(ag, calls, content) ==
  [ag EXCEPT !.results =
     Append(@, [call |-> ag.asked - Len(calls) + 1, content |-> content,
                assistant |-> ag.asked])]

\* for (const toolCall of response.toolCalls): run on from the first of
\* `calls` until a call suspends in executeSearchWithProgress, the arguments
\* fail to parse, or the calls are used up
RECURSIVE RunCalls(_, _)
RunCalls(ag, calls) ==
  IF calls = <<>> THEN NextRound(ag)
  ELSE LET c == Head(calls) IN
    IF c.name # "searchPosts" THEN RunCalls(ag, Tail(calls))
    ELSE IF c.args = "bad" THEN AgentThrows(ag)
    ELSE IF captured["searchPost"] = NoTemplate
      THEN RunCalls(ToolResult(ag, calls, "error"), Tail(calls))  \* thrown and caught
      ELSE [ag EXCEPT !.pc = "tool", !.calls = calls,
                      !.tool = [IdleTool EXCEPT !.pc = "tabsQuery"]]

\* faulty variant: the flag is not reset when the run leaves its try block
HeldAfterReturn(ag) == isAnalyzing

\* finally { state.isAnalyzing = false }
Released(ag) == IF ag.pc = "done" THEN FALSE ELSE isAnalyzing

\* a START_ANALYSIS or SEND_CHAT_MESSAGE request reaches the background
AgentMsg(kind) ==
  IF AgentRejected
    THEN /\ ev' = Event(kind, 0, FALSE)
         /\ UNCHANGED restVars
         /\ UNCHANGED <<captureVars, sessionVars, chatVars, storageVars,
                        search, agent>>
    ELSE /\ \E a \in AgentRuns : FreeAgent(a)
         /\ kind = "chat" => Len(chatHistory) < MaxHist
         /\ agent' = [agent EXCEPT ![NewAgent] =
                        [IdleAgent EXCEPT !.pc = "loadCfg", !.kind = kind]]
         /\ ev' = Event(kind, NewAgent, TRUE)
         /\ UNCHANGED restVars
         /\ UNCHANGED <<captureVars, sessionVars, chatVars, storageVars, search>>

\* the position of the first user turn of the history, 0 when it has none
RECURSIVE FirstUser(_, _)
FirstUser(history, i) ==
  IF i > Len(history) THEN 0
  ELSE IF history[i] = "user" THEN i
  ELSE FirstUser(history, i + 1)

\* handleChatMessage builds `messages` from state.chatHistory: the first
\* user turn gets contextMessage (system prompt and thread corpus) prepended,
\* every other turn is copied; with no user turn the context is unshifted
\* as a user turn of its own
BuildMessages(history) ==
  LET first == FirstUser(history, 1)
      copied == [i \in 1..Len(history) |->
                   [role |-> history[i], context |-> (i = first)]] IN
  IF first = 0 THEN <<[role |-> "user", context |-> TRUE]>> \o copied ELSE copied

\* the continuation that built `messages` and enters the tool loop with them
Sent(messages) ==
  [op |-> "continued", arg |-> 0, acc |-> TRUE, messages |-> messages]

\* await browser.storage.local.get(['aiConfig', 'lastSearchData']) resolves
AgentConfigLoaded(a, providerOk) ==
  /\ agent[a].pc = "loadCfg"
  /\ IF ~hasConfig \/ ~hasSearchData
       THEN /\ agent' = [agent EXCEPT ![a] = [@ EXCEPT !.pc = "done"]]
            /\ UNCHANGED chatVars
       ELSE IF agent[a].kind = "analysis"
         THEN /\ chatHistory' = <<>>
              /\ accumulatedSearches' = <<>>
              /\ IF providerOk
                   THEN /\ agent' = [agent EXCEPT ![a] =
                                       [Tell(@, "START") EXCEPT !.pc = "streaming"]]
                        /\ isAnalyzing' = TRUE
                   ELSE /\ agent' = [agent EXCEPT ![a] = AgentThrows(@)]
                        /\ isAnalyzing' = FALSE
         ELSE /\ UNCHANGED accumulatedSearches
              /\ IF providerOk
                   THEN /\ chatHistory' = Append(chatHistory, "user")
                        /\ agent' = [agent EXCEPT ![a] = NextRound(Tell(@, "START"))]
                        /\ isAnalyzing' = TRUE
                   ELSE /\ agent' = [agent EXCEPT ![a] = AgentThrows(@)]
                        /\ isAnalyzing' = FALSE
                        /\ UNCHANGED chatHistory
  /\ ev' = IF hasConfig /\ hasSearchData /\ agent[a].kind = "chat" /\ providerOk
             THEN Sent(BuildMessages(chatHistory'))
             ELSE Continued
  /\ UNCHANGED restVars
  /\ UNCHANGED <<captureVars, sessionVars, storageVars, search>>

\* startAnalysis: the streamCompletion loop ends, or the provider throws
AnalysisStreamed(a, ok) ==
  /\ agent[a].pc = "streaming"
  /\ IF ok
       THEN /\ chatHistory' = chatHistory \o <<"user", "assistant">>
            /\ agent' = [agent EXCEPT ![a] = [Tell(@, "COMPLETE") EXCEPT !.pc = "done"]]
       ELSE /\ agent' = [agent EXCEPT ![a] = AgentThrows(@)]
            /\ UNCHANGED chatHistory
  /\ isAnalyzing' = FALSE
  /\ ev' = Continued
  /\ UNCHANGED restVars
  /\ UNCHANGED <<captureVars, sessionVars, accumulatedSearches, storageVars, search>>

\* completionWithTools throws an LLMProviderError
LLMFailed(a) ==
  /\ agent[a].pc = "awaitLLM"
  /\ agent' = [agent EXCEPT ![a] = AgentThrows(@)]
  /\ isAnalyzing' = FALSE
  /\ ev' = Continued
  /\ UNCHANGED restVars
  /\ UNCHANGED <<captureVars, sessionVars, chatHistory, accumulatedSearches,
                 storageVars, search>>

\* completionWithTools returns {type: 'text'}: the chunk loop starts
LLMText(a) ==
  /\ agent[a].pc = "awaitLLM"
  /\ agent' = [agent EXCEPT ![a] =
                 [@ EXCEPT !.pc = "chunking", !.asked = 0, !.results = <<>>]]
  /\ ev' = Continued
  /\ UNCHANGED restVars
  /\ UNCHANGED <<captureVars, sessionVars, chatVars, storageVars, search>>

\* the last chunk is sent: history push, CHAT_COMPLETE, return
ChunksSent(a) ==
  /\ agent[a].pc = "chunking"
  /\ chatHistory' = Append(chatHistory, "assistant")
  /\ agent' = [agent EXCEPT ![a] = [Tell(@, "COMPLETE") EXCEPT !.pc = "done"]]
  /\ isAnalyzing' = FALSE
  /\ ev' = Continued
  /\ UNCHANGED restVars
  /\ UNCHANGED <<captureVars, sessionVars, accumulatedSearches, storageVars, search>>

\* completionWithTools returns a type that is neither text nor a tool call
\* with calls: break, then the check of the bound after the loop
LLMUnknown(a) ==
  /\ agent[a].pc = "awaitLLM"
  /\ agent' = [agent EXCEPT ![a] =
                 IF @.iterations >= LoopBound
                   THEN [Tell(@, "APOLOGY") EXCEPT !.pc = "done",
                                                   !.asked = 0, !.results = <<>>]
                   ELSE [@ EXCEPT !.pc = "done", !.asked = 0, !.results = <<>>]]
  /\ isAnalyzing' = FALSE
  /\ ev' = Continued
  /\ UNCHANGED restVars
  /\ UNCHANGED <<captureVars, sessionVars, chatHistory, accumulatedSearches,
                 storageVars, search>>

\* completionWithTools returns {type: 'tool_call', toolCalls}
LLMToolCall(a, calls) ==
  LET ag == RunCalls([agent[a] EXCEPT !.toolRounds = @ + 1,
                                      !.asked = Len(calls), !.results = <<>>],
                     calls) IN
  /\ agent[a].pc = "awaitLLM"
  /\ Len(accumulatedSearches) + Len(calls) <= MaxAccum
  /\ agent' = [agent EXCEPT ![a] = ag]
  /\ isAnalyzing' = Released(ag)
  /\ ev' = Continued
  /\ UNCHANGED restVars
  /\ UNCHANGED <<captureVars, sessionVars, chatHistory, accumulatedSearches,
                 storageVars, search>>

\* ------------------------------------------- transport errors of the backends

Backends == {"openai", "claude", "ollama"}

\* response.status of the backend's HTTP response
Statuses == {200, 401, 500}

\* response.ok
ResponseOk(status) == status >= 200 /\ status <= 299

\* statusCode = null
NoStatus == 0

\* faulty variant: the status code is not kept
LLMProviderErrorNoStatus(provider, statusCode) ==
  [name |-> "LLMProviderError", provider |-> provider, statusCode |-> NoStatus]

\* class LLMProviderError extends Error
LLMProviderError(provider, statusCode) ==
  [name |-> "LLMProviderError", provider |-> provider, statusCode |-> statusCode]

\* if (!response.ok) throw new LLMProviderError(..., '<backend>', response.status)
\* in streamCompletion and completionWithTools of each provider class
OpenAIError(status) == LLMProviderError("openai", status)
ClaudeError(status) == LLMProviderError("claude", status)
OllamaError(status) == LLMProviderError("ollama", status)

TransportError(backend, status) ==
  CASE backend = "openai" -> OpenAIError(status)
    [] backend = "claude" -> ClaudeError(status)
    [] backend = "ollama" -> OllamaError(status)

\* catch (error) { sendToAnalysis(..._ERROR); throw error }
Caught(ag, error) == [AgentThrows(ag) EXCEPT !.error = error]

Rejected(a, backend, status) ==
  [op |-> "rejected", arg |-> a, acc |-> FALSE, backend |-> backend, status |-> status]

\* handleChatMessage: the configured backend's completionWithTools gets a
\* response that is not ok
LLMRejected(a, backend, status) ==
  /\ agent[a].pc = "awaitLLM"
  /\ ~ResponseOk(status)
  /\ agent' = [agent EXCEPT ![a] = Caught(@, TransportError(backend, status))]
  /\ isAnalyzing' = FALSE
  /\ ev' = Rejected(a, backend, status)
  /\ UNCHANGED restVars
  /\ UNCHANGED <<captureVars, sessionVars, chatHistory, accumulatedSearches,
                 storageVars, search>>

\* startAnalysis: the configured backend's streamCompletion gets a response
\* that is not ok
AnalysisRejected(a, backend, status) ==
  /\ agent[a].pc = "streaming"
  /\ ~ResponseOk(status)
  /\ agent' = [agent EXCEPT ![a] = Caught(@, TransportError(backend, status))]
  /\ isAnalyzing' = FALSE
  /\ ev' = Rejected(a, backend, status)
  /\ UNCHANGED restVars
  /\ UNCHANGED <<captureVars, sessionVars, chatHistory, accumulatedSearches,
                 storageVars, search>>

\* case 'CLEAR_CHAT'
ClearChat ==
  /\ chatHistory' = <<>>
  /\ accumulatedSearches' = <<>>
  /\ ev' = Event("clearChat", 0, TRUE)
  /\ UNCHANGED restVars
  /\ UNCHANGED <<captureVars, sessionVars, isAnalyzing, storageVars, search, agent>>

\* ------------------------------------------------- the tool-invoked replay

\* executeSearchWithProgress threw: the catch appends the error result
\* turn and the for loop goes on with the next call
ToolThrows(ag) ==
  RunCalls(ToolResult([ag EXCEPT !.tool = IdleTool], ag.calls, "error"),
           Tail(ag.calls))

\* executeSearchWithProgress returned: the result is accumulated (by the
\* caller of this operator) and the for loop goes on with the next call
ToolReturns(ag) ==
  RunCalls(ToolResult([ag EXCEPT !.tool = IdleTool], ag.calls, "result"),
           Tail(ag.calls))

\* faulty variant: the item is fetched without being announced
ToolIssueDetailSilent(run, item) ==
  [run EXCEPT !.pc = "awaitDetail",
              !.inflight = @ \cup {item},
              !.trace = Append(@, Tr("fetchStart", item))]

\* fetchThreadDetailsWithProgress, top of the loop body for one item:
\* onProgress(fetching_thread), then sendMessage(FETCH_FEEDITEM) and await
ToolIssueDetail(run, item) ==
  [run EXCEPT !.pc = "awaitDetail",
              !.inflight = @ \cup {item},
              !.trace = @ \o <<Tr("progress", item), Tr("fetchStart", item)>>]

\* faulty variant: every identifier of the response is fetched
AllIds(n) == n

\* const limitedIds = postIds.slice(0, 10)
LimitedIds(n) == Min(n, TOOL_ID_LIMIT)

\* await browser.tabs.query({url: nextdoor}) resolves; FETCH_SEARCH is sent
ToolTabsQueried(a, hasTab) ==
  LET ag == IF hasTab
              THEN [agent[a] EXCEPT !.tool =
                      [@ EXCEPT !.pc = "awaitSearch",
                                !.trace = Append(@, Tr("searchStart", 0))]]
              ELSE ToolThrows(agent[a]) IN
  /\ agent[a].pc = "tool" /\ agent[a].tool.pc = "tabsQuery"
  /\ agent' = [agent EXCEPT ![a] = ag]
  /\ isAnalyzing' = Released(ag)
  /\ ev' = Continued
  /\ UNCHANGED restVars
  /\ UNCHANGED <<captureVars, sessionVars, chatHistory, accumulatedSearches,
                 storageVars, search>>

\* the FETCH_SEARCH response arrives with n post ids; onProgress(found_posts)
\* reports all n of them
ToolSearchResponded(a, ok, n) ==
  LET m == LimitedIds(n)
      found == [agent[a] EXCEPT !.tool =
                  [@ EXCEPT !.n = m, !.trace = Append(@, Tr("found", n))]]
      ag == IF ~ok \/ captured["feedItem"] = NoTemplate THEN ToolThrows(agent[a])
            ELSE IF m = 0 THEN ToolReturns(found)
            ELSE [found EXCEPT !.tool = ToolIssueDetail(@, 1)] IN
  /\ agent[a].pc = "tool" /\ agent[a].tool.pc = "awaitSearch"
  /\ agent' = [agent EXCEPT ![a] = ag]
  /\ accumulatedSearches' =
       IF ok /\ captured["feedItem"] # NoTemplate /\ m = 0
         THEN Append(accumulatedSearches, 0) ELSE accumulatedSearches
  /\ isAnalyzing' = Released(ag)
  /\ ev' = Continued
  /\ UNCHANGED restVars
  /\ UNCHANGED <<captureVars, sessionVars, chatHistory, storageVars, search>>

\* the FETCH_FEEDITEM response for the current item arrives (or the send throws)
ToolDetailResponded(a, out) ==
  LET item == agent[a].tool.i + 1
      run == AfterDetail(agent[a].tool, item, out)
      told == [run EXCEPT !.trace = Append(@, Tr("fetchEnd", item))]
      ag == IF MoreItems(item, told.n)
              THEN [agent[a] EXCEPT !.tool = [told EXCEPT !.pc = "delay"]]
              ELSE ToolReturns([agent[a] EXCEPT !.tool = told]) IN
  /\ agent[a].pc = "tool" /\ agent[a].tool.pc = "awaitDetail"
  /\ item \in agent[a].tool.inflight
  /\ agent' = [agent EXCEPT ![a] = ag]
  /\ accumulatedSearches' =
       IF MoreItems(item, told.n) THEN accumulatedSearches
       ELSE Append(accumulatedSearches, Len(told.threads))
  /\ isAnalyzing' = Released(ag)
  /\ ev' = Continued
  /\ UNCHANGED restVars
  /\ UNCHANGED <<captureVars, sessionVars, chatHistory, storageVars, search>>

\* the rate-limit wait ends; the next item is announced and fetched
ToolDelayed(a) ==
  /\ agent[a].pc = "tool" /\ agent[a].tool.pc = "delay"
  /\ agent' = [agent EXCEPT ![a].tool =
                 ToolIssueDetail([@ EXCEPT !.trace = Append(@, Tr("delay", agent[a].tool.i))],
                                 agent[a].tool.i + 1)]
  /\ ev' = Continued
  /\ UNCHANGED restVars
  /\ UNCHANGED <<captureVars, sessionVars, chatVars, storageVars, search>>

\* the continuations of handleChatMessage for the runs in `runs`, for model
\* responses with calls in callSeqs
ChatSteps(runs, callSeqs) ==
  \/ \E a \in runs, providerOk \in BOOLEAN : AgentConfigLoaded(a, providerOk)
  \/ \E a \in runs : LLMFailed(a)
  \/ \E a \in runs : LLMText(a)
  \/ \E a \in runs : ChunksSent(a)
  \/ \E a \in runs : LLMUnknown(a)
  \/ \E a \in runs, calls \in callSeqs : LLMToolCall(a, calls)

\* the continuations of startAnalysis and handleChatMessage
AgentSteps(runs, callSeqs) ==
  \/ ChatSteps(runs, callSeqs)
  \/ \E a \in runs, ok \in BOOLEAN : AnalysisStreamed(a, ok)

\* the continuations of the tool-invoked replay
ToolSteps(runs, ns, outs) ==
  \/ \E a \in runs, hasTab \in BOOLEAN : ToolTabsQueried(a, hasTab)
  \/ \E a \in runs, ok \in BOOLEAN, n \in ns : ToolSearchResponded(a, ok, n)
  \/ \E a \in runs, out \in outs : ToolDetailResponded(a, out)
  \/ \E a \in runs : ToolDelayed(a)

\* ---------------------------------------------------------- specifications

AgentKinds == {"analysis", "chat"}
IdCounts == 0..MaxIds

\* model responses whose calls are all well-formed searchPosts calls
GoodCallSeqs == UNION {[1..k -> {[name |-> "searchPosts", args |-> "ok"]}] : k \in 1..MaxCalls}

\* requests of one results page: its own isAnalyzing flag lets it send a
\* request only when it has none outstanding
PageRequest(kind) ==
  /\ \A a \in AgentRuns : FreeAgent(a)
  /\ AgentMsg(kind)

\* a user who does one thing at a time: a search is started from the popup
\* only while no agent run is active, a request is sent from the results
\* page only while no search is running
UserStartsSearch ==
  /\ \A a \in AgentRuns : FreeAgent(a)
  /\ StartSearchMsg

UserAsks(kind) ==
  /\ \A s \in SearchRuns : FreeSearch(s)
  /\ PageRequest(kind)

\* capture beside primary runs (whose detail fetches all succeed), from a
\* first start
SpecCaptureNext ==
  \/ CaptureNext
  \/ StartSearchMsg
  \/ SearchSteps(IdCounts, {"post"})
SpecCapture == Init /\ [][SpecCaptureNext]_vars

\* primary runs beside the analysis runs of one results page, started with
\* whatever templates storage held
SpecSearchNext ==
  \/ StartSearchMsg
  \/ SearchSteps(IdCounts, Outcomes)
  \/ PageRequest("analysis")
  \/ \E providerOk \in BOOLEAN : AgentConfigLoaded(1, providerOk)
  \/ \E ok \in BOOLEAN : AnalysisStreamed(1, ok)
SpecSearch == InitLoaded /\ [][SpecSearchNext]_vars

\* agent requests from several results pages, a model that never asks for tools
SpecAgentNext ==
  \/ \E kind \in AgentKinds : AgentMsg(kind)
  \/ \E a \in AgentRuns, providerOk \in BOOLEAN : AgentConfigLoaded(a, providerOk)
  \/ \E a \in AgentRuns, ok \in BOOLEAN : AnalysisStreamed(a, ok)
  \/ \E a \in AgentRuns : LLMFailed(a)
  \/ \E a \in AgentRuns : LLMText(a)
  \/ \E a \in AgentRuns : ChunksSent(a)
  \/ \E a \in AgentRuns : LLMUnknown(a)
  \/ ClearChat
SpecAgent == InitLoaded /\ [][SpecAgentNext]_vars

\* the agent runs of one results page, tools included
SpecChatNext ==
  \/ \E kind \in AgentKinds : PageRequest(kind)
  \/ AgentSteps({1}, CallSeqs)
  \/ \E backend \in Backends, status \in Statuses : LLMRejected(1, backend, status)
  \/ \E backend \in Backends, status \in Statuses :
       AnalysisRejected(1, backend, status)
  \/ ToolSteps({1}, IdCounts, Outcomes)
  \/ ClearChat
SpecChat == InitLoaded /\ [][SpecChatNext]_vars

\* a session that begins on the results page: the user chats about the
\* results an earlier session stored before starting searches from the popup
UserAsksFirst(kind) ==
  /\ \A s \in SearchRuns : search[s].pc = "idle"
  /\ PageRequest(kind)

\* tool-invoked replays, then primary runs, of a user who does one thing at
\* a time
SpecReplayNext ==
  \/ UserStartsSearch
  \/ SearchSteps(IdCounts, Outcomes)
  \/ UserAsksFirst("chat")
  \/ ChatSteps({1}, GoodCallSeqs)
  \/ ToolSteps({1}, IdCounts, Outcomes)
SpecReplay == InitLoaded /\ [][SpecReplayNext]_vars

\* tool-invoked replays of searches that return no identifier, or about as
\* many as the limit, or more; every detail fetch succeeds
ManyIds == 12
LimitCounts == {0} \cup (TOOL_ID_LIMIT - 1)..ManyIds

SpecLimitNext ==
  \/ PageRequest("chat")
  \/ ChatSteps({1}, GoodCallSeqs)
  \/ \E hasTab \in BOOLEAN : ToolTabsQueried(1, hasTab)
  \/ \E ok \in BOOLEAN, n \in LimitCounts : ToolSearchResponded(1, ok, n)
  \/ ToolDetailResponded(1, "post")
  \/ ToolDelayed(1)
SpecLimit == InitLoaded /\ [][SpecLimitNext]_vars

\* capture of page requests, one at a time, beside primary runs and
\* tool-invoked replays
PageCapture ==
  \/ \E kind \in Kinds, origin \in {"user", "replay"} :
       OnBeforeRequest(1, PAGE_TAB, Shape(TRUE, kind, TRUE, TRUE), origin)
  \/ OnSendHeaders(1, PAGE_TAB, Http1Headers)

\* responses with at most one identifier, detail fetches that succeed
SpecProvenanceNext ==
  \/ PageCapture
  \/ UserStartsSearch
  \/ \E s \in SearchRuns, hasTab \in BOOLEAN, hasQuery \in BOOLEAN :
       SearchTabsQueried(s, hasTab, hasQuery)
  \/ \E s \in SearchRuns, ok \in BOOLEAN, n \in 0..1 : SearchResponded(s, ok, n)
  \/ \E s \in SearchRuns : DetailResponded(s, "post")
  \/ \E s \in SearchRuns, ok \in BOOLEAN : SearchSaved(s, ok)
  \/ \E s \in SearchRuns, ok \in BOOLEAN : SearchTabCreated(s, ok)
  \/ UserAsks("chat")
  \/ ChatSteps({1}, GoodCallSeqs)
  \/ \E hasTab \in BOOLEAN : ToolTabsQueried(1, hasTab)
  \/ \E ok \in BOOLEAN, n \in 0..1 : ToolSearchResponded(1, ok, n)
  \/ ToolDetailResponded(1, "post")
SpecProvenance == InitLoaded /\ [][SpecProvenanceNext]_vars

\* everything
Next ==
  \/ CaptureNext
  \/ StartSearchMsg
  \/ SearchSteps(IdCounts, Outcomes)
  \/ \E kind \in AgentKinds : AgentMsg(kind)
  \/ AgentSteps(AgentRuns, CallSeqs)
  \/ \E a \in AgentRuns, backend \in Backends, status \in Statuses :
       LLMRejected(a, backend, status)
  \/ \E a \in AgentRuns, backend \in Backends, status \in Statuses :
       AnalysisRejected(a, backend, status)
  \/ ToolSteps(AgentRuns, IdCounts, Outcomes)
  \/ ClearChat
Spec == Init /\ [][Next]_vars

\* =========================================================================
\* Comment extraction: extractCommentWithReplies, extractAllComments,
\* countAllComments
\* =========================================================================

MaxNodes == 4        \* edges (at every depth) in one post's comment data
NPATHS == 8          \* the candidate reply paths, in priority order

\* An edge of a GraphQL edge list, flattened: a null edge, an edge without
\* node, a node without comment, or a comment with its body and, for each
\* candidate reply path in priority order, what that path holds.
NullEdge == [tag |-> "null"]
NoNodeEdge == [tag |-> "nonode"]
NoCommentEdge == [tag |-> "nocomment"]
CommentEdge(body, paths) == [tag |-> "comment", body |-> body, paths |-> paths]

\* a reply path that is undefined, and one that holds an edge list
NoPath == [tag |-> "none"]
ListAt(edges) == [tag |-> "list", edges |-> edges]

\* c.replies?.pagedComments?.edges || c.replies?.edges || ... || []:
\* the first path whose value is truthy; an array, empty or not, is truthy
RECURSIVE FirstTruthy(_, _)
FirstTruthy(paths, p) ==
  IF p > Len(paths) THEN <<>>
  ELSE IF paths[p].tag = "list" THEN paths[p].edges
  ELSE FirstTruthy(paths, p + 1)

repliesData(c) == FirstTruthy(c.paths, 1)

\* faulty variant: replies keep their parent's level
SameLevel(level) == level

\* extractCommentWithReplies(replyEdge.node, level + 1)
ReplyLevel(level) == level + 1

\* what a call returns: null, a comment, or nothing because it threw
ReturnsNull == [kind |-> "null"]
Returns(comment) == [kind |-> "comment", comment |-> comment]
Throws == [kind |-> "throw"]

\* The loops `for (const edge of edges) { const c =
\* extractCommentWithReplies(edge.node, level); if (c) list.push(c); }` of
\* extractAllComments and of extractCommentWithReplies: edge.node of a null
\* edge is a TypeError.
RECURSIVE extractCommentWithReplies(_, _)
RECURSIVE ExtractEdges(_, _, _)
ExtractEdges(edges, level, list) ==
  IF edges = <<>> THEN [thrown |-> FALSE, comments |-> list]
  ELSE IF Head(edges).tag = "null" THEN [thrown |-> TRUE, comments |-> <<>>]
  ELSE LET r == extractCommentWithReplies(Head(edges), level) IN
    IF r.kind = "throw" THEN [thrown |-> TRUE, comments |-> <<>>]
    ELSE ExtractEdges(Tail(edges), level,
                      IF r.kind = "comment" THEN Append(list, r.comment) ELSE list)

\* const c = commentNode?.comment; if (!c) return null; ...
extractCommentWithReplies(commentNode, level) ==
  IF commentNode.tag # "comment" THEN ReturnsNull
  ELSE LET rs == ExtractEdges(repliesData(commentNode), ReplyLevel(level), <<>>) IN
    IF rs.thrown THEN Throws
    ELSE Returns([body |-> commentNode.body, level |-> level,
                  replies |-> rs.comments])

\* post.comments?.pagedComments?.edges || [], each edge at level 0
extractAllComments(post) == ExtractEdges(post, 0, <<>>)

\* faulty variant: replies are not counted
countTopLevel(comments) == Len(comments)

RECURSIVE countAllComments(_)
countAllComments(comments) ==
  IF comments = <<>> THEN 0
  ELSE 1 + (IF Len(Head(comments).replies) > 0
              THEN countAllComments(Head(comments).replies) ELSE 0)
         + countAllComments(Tail(comments))

\* ------------------------------------------------------------- the inputs
Bodies == {"a", "b"}
LeafPaths == [p \in 1..NPATHS |-> NoPath]
RepliesAt(p, edges) == [LeafPaths EXCEPT ![p] = ListAt(edges)]

\* every edge list with n edges in all, replies held at the first path
RECURSIVE Forests(_)
RECURSIVE Trees(_)
Forests(n) ==
  IF n = 0 THEN {<<>>}
  ELSE UNION {{<<t>> \o f : t \in Trees(k), f \in Forests(n - k)} : k \in 1..n}

Trees(k) ==
  IF k = 1
    THEN {NullEdge, NoNodeEdge, NoCommentEdge}
         \cup {CommentEdge(b, LeafPaths) : b \in Bodies}
    ELSE {CommentEdge(b, RepliesAt(1, f)) : b \in Bodies, f \in Forests(k - 1)}

\* one or two well-formed comments without replies
LeafLists ==
  {<<CommentEdge(b, LeafPaths)>> : b \in Bodies}
  \cup {<<CommentEdge(b, LeafPaths), CommentEdge(c, LeafPaths)>> : b \in Bodies, c \in Bodies}

\* one comment whose replies are at path p, with an empty list at path q
\* (q = p: only the empty list)
PriorityPosts ==
  {<<CommentEdge("a", [RepliesAt(p, f) EXCEPT ![q] = ListAt(<<>>)])>> :
     p \in 1..NPATHS, q \in 1..NPATHS, f \in LeafLists}
  \cup {<<CommentEdge("a", RepliesAt(p, f))>> : p \in 1..NPATHS, f \in LeafLists}

Posts == UNION {Forests(n) : n \in 0..MaxNodes} \cup PriorityPosts

\* ---------------------------------------------------------------- actions
\* a detail response with a post has arrived: const comments =
\* extractAllComments(post); a throw goes to the catch of the loop body
CommentsExtracted ==
  LET r == extractAllComments(thread.post) IN
  /\ thread.pc = "post"
  /\ thread' = [thread EXCEPT !.pc = IF r.thrown THEN "thrown" ELSE "extracted",
                              !.comments = r.comments]
  /\ UNCHANGED <<captureVars, sessionVars, chatVars, storageVars, search,
                 agent, ev, stream, fmt, request, badge>>

\* const commentCount = countAllComments(comments)
CommentsCounted ==
  /\ thread.pc = "extracted"
  /\ thread' = [thread EXCEPT !.pc = "counted",
                              !.count = countAllComments(thread.comments)]
  /\ UNCHANGED <<captureVars, sessionVars, chatVars, storageVars, search,
                 agent, ev, stream, fmt, request, badge>>

InitComments ==
  /\ InitBackground
  /\ stored = [k \in Kinds |-> NoTemplate]
  /\ captured = stored
  /\ hasConfig = FALSE
  /\ hasSearchData = FALSE
  /\ fmt = NoFmt
  /\ request = NoRequest
  /\ badge = updateBadge(FALSE, captured)
  /\ \E post \in Posts : thread = [NoThread EXCEPT !.post = post, !.pc = "post"]
  /\ stream = NoStream

SpecCommentsNext ==
  \/ CommentsExtracted
  \/ CommentsCounted
SpecComments == InitComments /\ [][SpecCommentsNext]_vars

\* =========================================================================
\* Response streams: streamCompletion of the three provider classes
\* =========================================================================

MaxLines == 3        \* newline-terminated lines in one response stream

\* A line of the response body after trim(): text is "blank" (empty),
\* "doneMarker" (exactly `data: [DONE]`), "data" (`data: ` and a payload) or
\* "bare" (a payload alone); parses: JSON.parse accepts the payload and the
\* fields read from it can be read; content: the text at the place the
\* backend's format keeps it ("" if none); done: the payload's done field;
\* event: the payload's type field, which only the Claude backend reads.
Line(text, parses, content, done) ==
  [text |-> text, parses |-> parses, content |-> content, done |-> done,
   event |-> "content_block_delta"]

\* a Claude streaming event `data: {"type": type, "delta": {"text": text}}`
ClaudeEvent(type, text) == [Line("data", TRUE, text, FALSE) EXCEPT !.event = type]

BlankLine == Line("blank", FALSE, "", FALSE)
DoneMarker == Line("doneMarker", FALSE, "", FALSE)

Contents == {"", "a", "b"}

Payloads == {Line(t, FALSE, "", FALSE) : t \in {"data", "bare"}}
              \cup {Line(t, TRUE, c, FALSE) : t \in {"data", "bare"}, c \in Contents}
              \cup {Line("bare", TRUE, c, TRUE) : c \in {"", "a"}}

Lines == {BlankLine, DoneMarker} \cup Payloads

\* what the loop body does with one line: the fragments it yields, and
\* whether the generator returns
Yields(content) == [yield |-> <<content>>, stop |-> FALSE]
Skip == [yield |-> <<>>, stop |-> FALSE]
Return(yield) == [yield |-> yield, stop |-> TRUE]

\* faulty variant: a line that fails to parse ends the stream
Abort == Return(<<>>)

\* catch (e) { console.warn(...) }
OnParseError == Skip

\* trimmed.startsWith('data: ')
HasDataPrefix(line) == line.text \in {"data", "doneMarker"}

\* JSON.parse of what follows the prefix, or of the whole line
ParsesAfterPrefix(line) == line.text = "data" /\ line.parses
ParsesWhole(line) == line.text = "bare" /\ line.parses

\* OpenAIProvider.streamCompletion, body of for (const line of lines)
OpenAILine(line) ==
  IF line.text = "blank" \/ line.text = "doneMarker" THEN Skip
  ELSE IF HasDataPrefix(line)
    THEN IF ParsesAfterPrefix(line)
           THEN IF line.content # "" THEN Yields(line.content) ELSE Skip
           ELSE OnParseError
    ELSE Skip

\* faulty variant: the event type is not looked at
HasDeltaText(line) == line.content # ""

\* data.type === 'content_block_delta' && data.delta?.text
IsTextDelta(line) == line.event = "content_block_delta" /\ line.content # ""

\* ClaudeProvider.streamCompletion, body of for (const line of lines)
ClaudeLine(line) ==
  IF line.text = "blank" THEN Skip
  ELSE IF HasDataPrefix(line)
    THEN IF ParsesAfterPrefix(line)
           THEN IF IsTextDelta(line) THEN Yields(line.content) ELSE Skip
           ELSE OnParseError
    ELSE Skip

\* OllamaProvider.streamCompletion, body of for (const line of lines)
OllamaLine(line) ==
  IF line.text = "blank" THEN Skip
  ELSE IF ParsesWhole(line)
    THEN LET out == IF line.content # "" THEN <<line.content>> ELSE <<>>
         IN IF line.done THEN Return(out) ELSE [yield |-> out, stop |-> FALSE]
    ELSE OnParseError

StepLine(backend, line) ==
  CASE backend = "openai" -> OpenAILine(line)
    [] backend = "claude" -> ClaudeLine(line)
    [] backend = "ollama" -> OllamaLine(line)

\* the next complete line of the buffer is processed
StreamLine ==
  /\ stream.pc = "reading"
  /\ stream.pos < Len(stream.lines)
  /\ LET r == StepLine(stream.backend, stream.lines[stream.pos + 1])
     IN stream' = [stream EXCEPT !.pos = @ + 1,
                                 !.out = @ \o r.yield,
                                 !.pc = IF r.stop THEN "ended" ELSE "reading"]
  /\ UNCHANGED <<captureVars, sessionVars, chatVars, storageVars, search,
                 agent, ev, thread, fmt, request, badge>>

\* reader.read() reports done: break; what is left in the buffer (the text
\* after the last newline) is dropped
StreamDone ==
  /\ stream.pc = "reading"
  /\ stream.pos = Len(stream.lines)
  /\ stream' = [stream EXCEPT !.pc = "ended", !.tail = BlankLine]
  /\ UNCHANGED <<captureVars, sessionVars, chatVars, storageVars, search,
                 agent, ev, thread, fmt, request, badge>>

\* response bodies of up to MaxLines lines, followed by nothing or by an
\* unterminated fragment
Tails == {BlankLine, Line("data", TRUE, "b", FALSE), Line("bare", TRUE, "b", FALSE)}

InitStream ==
  /\ InitBackground
  /\ stored = [k \in Kinds |-> NoTemplate]
  /\ captured = stored
  /\ hasConfig = FALSE
  /\ hasSearchData = FALSE
  /\ fmt = NoFmt
  /\ request = NoRequest
  /\ badge = updateBadge(FALSE, captured)
  /\ thread = NoThread
  /\ \E backend \in Backends, n \in 0..MaxLines :
       \E lines \in [1..n -> Lines], tail \in Tails :
         stream = [backend |-> backend, lines |-> lines, tail |-> tail,
                   pos |-> 0, out |-> <<>>, pc |-> "reading"]

SpecStreamNext ==
  \/ StreamLine
  \/ StreamDone
SpecStream == InitStream /\ [][SpecStreamNext]_vars

\* Claude response bodies: text deltas, a delta without text, a stop event,
\* an event of another type that carries text, the `event:` line that
\* precedes each data line, blank lines and unparsable data lines
ClaudeLines ==
  {ClaudeEvent("content_block_delta", t) : t \in {"Hel", "lo", ""}}
    \cup {ClaudeEvent("message_stop", ""), ClaudeEvent("message_delta", "lo")}
    \cup {BlankLine, Line("bare", FALSE, "", FALSE), Line("data", FALSE, "", FALSE)}

InitClaude ==
  /\ InitBackground
  /\ stored = [k \in Kinds |-> NoTemplate]
  /\ captured = stored
  /\ hasConfig = FALSE
  /\ hasSearchData = FALSE
  /\ fmt = NoFmt
  /\ request = NoRequest
  /\ badge = updateBadge(FALSE, captured)
  /\ thread = NoThread
  /\ \E n \in 0..MaxLines :
       \E lines \in [1..n -> ClaudeLines] :
         stream = [backend |-> "claude", lines |-> lines, tail |-> BlankLine,
                   pos |-> 0, out |-> <<>>, pc |-> "reading"]

SpecClaude == InitClaude /\ [][SpecStreamNext]_vars

\* =========================================================================
\* Tool-result turns: formatToolResultMessages of the provider classes
\* =========================================================================

MaxTurnCalls == 2    \* tool calls, and results, handed to one call

\* tc.arguments: a JSON string or an object, both standing for `value`
Arguments(form, value) == [form |-> form, value |-> value]
JSONstringify(a) == Arguments("string", a.value)
JSONparse(a) == Arguments("object", a.value)

ToolCall(id, arguments) == [id |-> id, name |-> "searchPosts", arguments |-> arguments]
ToolCalls == {ToolCall(id, Arguments(form, "q")) :
                id \in {"t1", "t2"}, form \in {"string", "object"}}
Results == {[toolCallId |-> id, content |-> c] : id \in {"t1", "t2"}, c \in {"r1", "r2"}}

\* OpenAIProvider.formatToolResultMessages: the assistant turn
OpenAIAssistantTurn(toolCalls) ==
  [role |-> "assistant", content |-> "null",
   tool_calls |-> [i \in 1..Len(toolCalls) |->
     [id |-> toolCalls[i].id, type |-> "function", name |-> toolCalls[i].name,
      arguments |-> IF toolCalls[i].arguments.form = "string"
                      THEN toolCalls[i].arguments
                      ELSE JSONstringify(toolCalls[i].arguments)]]]

\* faulty variant: only the first result gets a turn
FirstToolTurn(results) ==
  IF results = <<>> THEN <<>>
  ELSE <<[role |-> "tool", tool_call_id |-> results[1].toolCallId,
          content |-> results[1].content]>>

\* for (const result of results) messages.push({role: 'tool', ...})
OpenAIToolTurns(results) ==
  [i \in 1..Len(results) |->
     [role |-> "tool", tool_call_id |-> results[i].toolCallId,
      content |-> results[i].content]]

OpenAIFormat(toolCalls, results) ==
  <<OpenAIAssistantTurn(toolCalls)>> \o OpenAIToolTurns(results)

\* ClaudeProvider.formatToolResultMessages
ClaudeAssistantTurn(toolCalls) ==
  [role |-> "assistant",
   content |-> [i \in 1..Len(toolCalls) |->
     [type |-> "tool_use", id |-> toolCalls[i].id, name |-> toolCalls[i].name,
      input |-> IF toolCalls[i].arguments.form = "string"
                  THEN JSONparse(toolCalls[i].arguments)
                  ELSE toolCalls[i].arguments]]]

ClaudeUserTurn(results) ==
  [role |-> "user",
   content |-> [i \in 1..Len(results) |->
     [type |-> "tool_result", tool_use_id |-> results[i].toolCallId,
      content |-> results[i].content]]]

ClaudeFormat(toolCalls, results) ==
  <<ClaudeAssistantTurn(toolCalls), ClaudeUserTurn(results)>>

formatToolResultMessages(backend, toolCalls, results) ==
  CASE backend = "openai" -> OpenAIFormat(toolCalls, results)
    [] backend = "claude" -> ClaudeFormat(toolCalls, results)

\* provider.formatToolResultMessages(response.toolCalls, [...]) returns
ToolResultsFormatted ==
  /\ fmt.pc = "called"
  /\ fmt' = [fmt EXCEPT !.pc = "returned",
                        !.messages = formatToolResultMessages(fmt.backend,
                                                              fmt.toolCalls, fmt.results)]
  /\ UNCHANGED <<captureVars, sessionVars, chatVars, storageVars, search,
                 agent, ev, thread, stream, request, badge>>

InitFormat ==
  /\ InitBackground
  /\ stored = [k \in Kinds |-> NoTemplate]
  /\ captured = stored
  /\ hasConfig = FALSE
  /\ hasSearchData = FALSE
  /\ thread = NoThread
  /\ stream = NoStream
  /\ request = NoRequest
  /\ badge = updateBadge(FALSE, captured)
  /\ \E backend \in {"openai", "claude"}, n \in 1..MaxTurnCalls, m \in 0..MaxTurnCalls :
       \E toolCalls \in [1..n -> ToolCalls], results \in [1..m -> Results] :
         fmt = [backend |-> backend, toolCalls |-> toolCalls, results |-> results,
                pc |-> "called", messages |-> <<>>]

SpecFormatNext == ToolResultsFormatted
SpecFormat == InitFormat /\ [][SpecFormatNext]_vars

\* =========================================================================
\* Templates from capture to replay: header names, hashes, storage, restart
\* =========================================================================

\* page requests whose body parses, with and without a persisted-query hash
TemplateShapes == {Shape(TRUE, k, TRUE, h) : k \in Kinds, h \in BOOLEAN}

\* details.requestHeaders as the browser reports them: the names of an
\* HTTP/1.1 request or the lower-case names of an HTTP/2 request
HeaderSets == {Http1Headers, Http2Headers}

\* the background script starts again: the state object is built anew and
\* initializeState loads the templates that storage holds
initializeState ==
  /\ pending' = [r \in Rids |-> NoPending]
  /\ isRunning' = FALSE
  /\ progress' = NoProgress
  /\ chatHistory' = <<>>
  /\ accumulatedSearches' = <<>>
  /\ isAnalyzing' = FALSE
  /\ search' = [s \in SearchRuns |-> IdleSearch]
  /\ agent' = [a \in AgentRuns |-> IdleAgent]
  /\ captured' = stored
  /\ badge' = updateBadge(FALSE, captured')
  /\ ev' = Event("restart", 0, TRUE)
  /\ UNCHANGED <<stored, storageVars, fnVars>>

\* header names are case-insensitive: the lower-case form of the names used
lower(name) ==
  CASE name = "Host" -> "host"
    [] name = "Connection" -> "connection"
    [] name = "Content-Length" -> "content-length"
    [] name = "Cookie" -> "cookie"
    [] OTHER -> name

\* the headers the transport forbids or manages itself
Forbidden == {"host", "connection", "content-length", "cookie"}

\* const cleanHeaders = {...headers}; delete cleanHeaders['Host']; ...
cleanHeaders(headers) == headers \ {"Host", "Connection", "Content-Length", "Cookie"}

\* fetchSearch / fetchFeedItem of the content script, called with the
\* headers of the template the background script holds for this kind
ContentFetch(kind) ==
  /\ captured[kind] # NoTemplate
  /\ request' = [kind |-> kind, headers |-> cleanHeaders(captured[kind].headers),
                 credentials |-> "include"]
  /\ ev' = Event("fetch", 0, TRUE)
  /\ UNCHANGED <<captureVars, sessionVars, chatVars, storageVars, search,
                 agent, thread, stream, fmt, badge>>

\* page requests observed one at a time, restarts of the background script
\* and replays through the content script
SpecTemplateNext ==
  \/ \E shape \in TemplateShapes : OnBeforeRequest(1, PAGE_TAB, shape, "user")
  \/ Expire(1)
  \/ \E headers \in HeaderSets : OnSendHeaders(1, PAGE_TAB, headers)
  \/ initializeState
  \/ \E kind \in Kinds : ContentFetch(kind)
SpecTemplate == Init /\ [][SpecTemplateNext]_vars

\* =========================================================================
\* Runs whose awaited calls all settle
\* =========================================================================

\* primary runs and the agent runs of one results page (analysis and chat,
\* tools included) of a user who does one thing at a time; searches return
\* at most two identifiers
SpecSettleNext ==
  \/ UserStartsSearch
  \/ SearchSteps(0..2, Outcomes)
  \/ \E kind \in AgentKinds : UserAsksFirst(kind)
  \/ AgentSteps({1}, GoodCallSeqs)
  \/ ToolSteps({1}, 0..2, Outcomes)

\* every awaited call (tabs.query, sendMessage, storage, tabs.create, the
\* provider's response, the timers) eventually settles
Settles ==
  /\ WF_vars(SearchSteps(0..2, Outcomes))
  /\ WF_vars(AgentSteps({1}, GoodCallSeqs))
  /\ WF_vars(ToolSteps({1}, 0..2, Outcomes))

SpecSettle == InitLoaded /\ [][SpecSettleNext]_vars /\ Settles

\* =========================================================================
\* Model responses that ask for one or two searches
\* =========================================================================

\* model responses with one or two well-formed searchPosts calls
CallPairs == UNION {[1..k -> {[name |-> "searchPosts", args |-> "ok"]}] : k \in 1..2}

\* the chat runs of one results page whose tool-invoked replays return at
\* most two identifiers
SpecTurnsNext ==
  \/ PageRequest("chat")
  \/ ChatSteps({1}, CallPairs)
  \/ ToolSteps({1}, 0..2, {"post", "fail"})
SpecTurns == InitLoaded /\ [][SpecTurnsNext]_vars

\* =========================================================================
\* The popup and a results page used at the same time
\* =========================================================================

\* START_SEARCH from the popup at any time, beside the chat runs of one
\* results page; responses with at most one identifier, detail fetches that
\* succeed
SpecOverlapNext ==
  \/ StartSearchMsg
  \/ \E s \in SearchRuns, hasTab \in BOOLEAN, hasQuery \in BOOLEAN :
       SearchTabsQueried(s, hasTab, hasQuery)
  \/ \E s \in SearchRuns, ok \in BOOLEAN, n \in 0..1 : SearchResponded(s, ok, n)
  \/ \E s \in SearchRuns : DetailResponded(s, "post")
  \/ \E s \in SearchRuns, ok \in BOOLEAN : SearchSaved(s, ok)
  \/ \E s \in SearchRuns, ok \in BOOLEAN : SearchTabCreated(s, ok)
  \/ PageRequest("chat")
  \/ ChatSteps({1}, GoodCallSeqs)
  \/ \E hasTab \in BOOLEAN : ToolTabsQueried(1, hasTab)
  \/ \E ok \in BOOLEAN, n \in 0..1 : ToolSearchResponded(1, ok, n)
  \/ ToolDetailResponded(1, "post")
SpecOverlap == InitLoaded /\ [][SpecOverlapNext]_vars

\* =========================================================================
\* Response streams as the transport delivers them: chunks of bytes
\* =========================================================================

MaxBodyLines == 2    \* newline-terminated lines in a chunked response body

\* Bytes of a response body. "\n" is the newline, "\r" a carriage return,
\* "c3" "a9" the two bytes of the character U+E9; the other elements stand
\* for runs of ASCII bytes: the prefix `data: `, the sentinel `[DONE]`, the
\* opening of a JSON payload up to its content, the content "a", the
\* closing of the payload, and a whole payload with done set and no content.
LineTexts ==
  {<<>>,
   <<"data: ", "[DONE]">>,
   <<"data: ", "{", "c3", "a9", "}">>,
   <<"{", "a", "}", "\r">>,
   <<"{done}">>,
   <<"data: ", "{", "a">>}

\* what may follow the last newline of the body
TailTexts == {<<>>, <<"data: ", "{", "a", "}">>, <<"{", "a", "}">>}

RECURSIVE Terminated(_)
Terminated(texts) ==
  IF texts = <<>> THEN <<>>
  ELSE Head(texts) \o <<"\n">> \o Terminated(Tail(texts))

ChunkedBodies ==
  {Terminated(texts) \o tail :
     texts \in UNION {[1..n -> LineTexts] : n \in 0..MaxBodyLines},
     tail \in TailTexts}

\* the characters of a run of bytes that ends on a character boundary
\* ("U+FFFD" is what the decoder puts in place of a malformed sequence)
RECURSIVE Chars(_)
Chars(bytes) ==
  IF bytes = <<>> THEN <<>>
  ELSE IF Head(bytes) = "c3"
    THEN IF Len(bytes) >= 2 /\ bytes[2] = "a9"
           THEN <<"U+E9">> \o Chars(SubSeq(bytes, 3, Len(bytes)))
           ELSE <<"U+FFFD">> \o Chars(Tail(bytes))
  ELSE IF Head(bytes) = "a9" THEN <<"U+FFFD">> \o Chars(Tail(bytes))
  ELSE <<Head(bytes)>> \o Chars(Tail(bytes))

\* decoder.decode(value, { stream: true }): the bytes of a character that
\* the chunk leaves incomplete are held back for the next call
decode(held, value) ==
  LET bytes == held \o value
      cut == IF bytes # <<>> /\ bytes[Len(bytes)] = "c3"
               THEN Len(bytes) - 1 ELSE Len(bytes)
  IN [chars |-> Chars(SubSeq(bytes, 1, cut)),
      held |-> SubSeq(bytes, cut + 1, Len(bytes))]

\* buffer.split('\n')
RECURSIVE split(_)
split(buffer) ==
  IF \A i \in 1..Len(buffer) : buffer[i] # "\n" THEN <<buffer>>
  ELSE LET i == CHOOSE i \in 1..Len(buffer) :
                  /\ buffer[i] = "\n"
                  /\ \A j \in 1..(i - 1) : buffer[j] # "\n"
       IN <<SubSeq(buffer, 1, i - 1)>> \o split(SubSeq(buffer, i + 1, Len(buffer)))

\* faulty variant: what follows the last newline of a chunk is thrown away
DropPartial(lines) == <<>>

\* buffer = lines.pop() || ''
Carry(lines) == lines[Len(lines)]

\* line.trim()
RECURSIVE trim(_)
trim(line) ==
  IF line = <<>> THEN <<>>
  ELSE IF Head(line) = "\r" THEN trim(Tail(line))
  ELSE IF line[Len(line)] = "\r" THEN trim(SubSeq(line, 1, Len(line) - 1))
  ELSE line

\* JSON.parse of a payload and the fields the backends read from it
Parsed(payload) ==
  IF payload = <<"{done}">> THEN [parses |-> TRUE, content |-> "", done |-> TRUE]
  ELSE IF Len(payload) = 3 /\ payload[1] = "{" /\ payload[3] = "}"
            /\ payload[2] \in {"a", "U+E9", "U+FFFD"}
    THEN [parses |-> TRUE, content |-> payload[2], done |-> FALSE]
  ELSE [parses |-> FALSE, content |-> "", done |-> FALSE]

\* the trimmed line as the loop body sees it
LineOf(text) ==
  LET trimmed == trim(text)
  IN IF trimmed = <<>> THEN BlankLine
     ELSE IF trimmed = <<"data: ", "[DONE]">> THEN DoneMarker
     ELSE IF Head(trimmed) = "data: "
       THEN LET p == Parsed(Tail(trimmed))
            IN Line("data", p.parses, p.content, p.done)
     ELSE LET p == Parsed(trimmed)
          IN Line("bare", p.parses, p.content, p.done)

\* for (const line of lines) { ... }: the fragments yielded, and whether
\* the generator returned inside the loop
RECURSIVE ForLines(_, _)
ForLines(backend, lines) ==
  IF lines = <<>> THEN Skip
  ELSE LET r == StepLine(backend, LineOf(Head(lines)))
       IN IF r.stop THEN r
          ELSE LET more == ForLines(backend, Tail(lines))
               IN [yield |-> r.yield \o more.yield, stop |-> more.stop]

\* one turn of while (true) after reader.read() delivered value
Read(backend, st, value) ==
  LET d == decode(st.held, value)
      lines == split(st.buffer \o d.chars)
      r == ForLines(backend, SubSeq(lines, 1, Len(lines) - 1))
  IN [held |-> d.held, buffer |-> Carry(lines),
      out |-> st.out \o r.yield, stop |-> r.stop]

NoRead == [held |-> <<>>, buffer |-> <<>>, out |-> <<>>, stop |-> FALSE]

\* the fragments of a body that arrives as a single chunk
WholeBody(backend, body) == Read(backend, NoRead, body).out

\* reader.read() delivers the next k bytes of the body; inLine and inChar
\* record that a chunk ended inside a line, inside a character
ReadChunk ==
  /\ stream.pc = "reading"
  /\ stream.rest # <<>>
  /\ \E k \in 1..Len(stream.rest) :
       LET st == Read(stream.backend, stream.st, SubSeq(stream.rest, 1, k))
           rest == SubSeq(stream.rest, k + 1, Len(stream.rest))
       IN stream' = [stream EXCEPT
                       !.st = st,
                       !.rest = rest,
                       !.pc = IF st.stop THEN "ended" ELSE "reading",
                       !.inLine = @ \/ (rest # <<>> /\ st.buffer # <<>>),
                       !.inChar = @ \/ st.held # <<>>]
  /\ UNCHANGED <<captureVars, sessionVars, chatVars, storageVars, search,
                 agent, ev, thread, fmt, request, badge>>

\* reader.read() reports done: break
ReadDone ==
  /\ stream.pc = "reading"
  /\ stream.rest = <<>>
  /\ stream' = [stream EXCEPT !.pc = "ended"]
  /\ UNCHANGED <<captureVars, sessionVars, chatVars, storageVars, search,
                 agent, ev, thread, fmt, request, badge>>

InitChunks ==
  /\ InitBackground
  /\ stored = [k \in Kinds |-> NoTemplate]
  /\ captured = stored
  /\ hasConfig = FALSE
  /\ hasSearchData = FALSE
  /\ fmt = NoFmt
  /\ request = NoRequest
  /\ badge = updateBadge(FALSE, captured)
  /\ thread = NoThread
  /\ \E backend \in Backends, body \in ChunkedBodies :
       stream = [backend |-> backend, body |-> body, rest |-> body,
                 st |-> NoRead, pc |-> "reading",
                 inLine |-> FALSE, inChar |-> FALSE]

SpecChunksNext ==
  \/ ReadChunk
  \/ ReadDone
SpecChunks == InitChunks /\ [][SpecChunksNext]_vars

\* =========================================================================
\* Properties
\* =========================================================================

\* positions of a trace entry
Pos(t, e) == {p \in 1..Len(t) : t[p] = e}
Before(t, e, f) == \A q \in Pos(t, f) : \E p \in Pos(t, e) : p < q
Count(t, what) == Cardinality({p \in 1..Len(t) : t[p].what = what})

ActiveSearch(s) == search[s].pc \notin {"idle", "done"}
Executing(a) == agent[a].pc \in {"streaming", "awaitLLM", "chunking", "tool"}

\* the replay runs with locals: every startSearch run and every tool run
ReplayRuns == {search[s] : s \in SearchRuns} \cup {agent[a].tool : a \in AgentRuns}

\* C1: a template for a requestId is stored only by a header observation that
\* finds the pending body an earlier body observation of the same id left
\* (and consumes it); a pending body appears only by an accepted body
\* observation; a body observation alone, or a header observation that finds
\* no pending body, leaves state.captured as it was.
C1_TemplateNeedsBodyThenHeaders ==
  [][ /\ \A k \in Kinds : captured'[k] # captured[k] =>
           /\ ev'.op = "headers" /\ ev'.acc
           /\ captured'[k].rid \in Rids
           /\ pending[captured'[k].rid].kind = k
           /\ pending'[captured'[k].rid] = NoPending
      /\ \A r \in Rids : (pending'[r] # pending[r] /\ pending'[r] # NoPending) =>
           ev'.op = "body" /\ ev'.acc
      /\ ev'.op = "body" => captured' = captured
      /\ (ev'.op = "headers" /\ ~ev'.acc) =>
           captured' = captured /\ pending' = pending
    ]_vars

\* a header observation has just matched a pending body and stored a template
C1_Witness ==
  /\ ev.op = "headers" /\ ev.acc
  /\ \E k \in Kinds : captured[k].rid \in Rids /\ stored[k] = captured[k]

\* C2: no request the extension's replay (primary run or tool-invoked search)
\* sent through the page's fetch creates or overwrites a template: every
\* template in state.captured and in storage comes from the user's browsing.
C2_TemplatesFromUserOnly ==
  \A k \in Kinds : /\ captured[k].origin \in {"none", "user"}
                   /\ stored[k].origin \in {"none", "user"}

\* C3: a body observation with the sentinel tab id, or one that arrives while
\* state.isRunning, is not accepted and leaves the pending bodies and the
\* templates as they were; so no pending body and no template ever comes
\* from the extension's own context or from a primary run's replay.
C3_IgnoredBodyLeavesNoPending ==
  [][ /\ (ev'.op = "body" /\ (ev'.arg = SENTINEL_TAB \/ isRunning)) =>
           ~ev'.acc /\ pending' = pending /\ captured' = captured
      /\ \A r \in Rids : pending'[r].origin \in {"none", "user"}
      /\ \A k \in Kinds : captured'[k].origin \in {"none", "user"}
    ]_vars

\* a page request's body was observed during a run and ignored, while the
\* body of another request is pending
C3_Witness ==
  /\ ev.op = "body" /\ ev.arg = PAGE_TAB /\ ~ev.acc /\ isRunning
  /\ \E s \in SearchRuns : search[s].pc = "awaitDetail"
  /\ \E r \in Rids : pending[r] = NoPending
  /\ \E r \in Rids : pending[r] # NoPending

\* C4: at most one agent run (startAnalysis or handleChatMessage) is
\* executing at any time.
C4_OneAgentRun ==
  Cardinality({a \in AgentRuns : Executing(a)}) <= 1

\* C5: a START_SEARCH received while state.isRunning is rejected and changes
\* nothing (no second run, progress, chat history, accumulated searches and
\* templates as they were); at most one primary run is active at any time.
C5_StartSearchRejectedWhileRunning ==
  [][ /\ Cardinality({s \in SearchRuns : search'[s].pc \notin {"idle", "done"}}) <= 1
      /\ (ev'.op = "startSearch" /\ isRunning) =>
           /\ ~ev'.acc
           /\ UNCHANGED <<search, isRunning, progress, chatHistory,
                          accumulatedSearches, captured, stored>>
    ]_vars

\* a START_SEARCH was rejected during a run that has reported progress,
\* with a chat history present
C5_Witness ==
  /\ ev.op = "startSearch" /\ ~ev.acc /\ isRunning
  /\ chatHistory # <<>>
  /\ progress.current > 0
  /\ \E s \in SearchRuns : ActiveSearch(s)

\* C6: a handleChatMessage run calls the model at most MAX_TOOL_ITERATIONS
\* times; a run in which every one of these responses asked for a tool ends
\* with the apologetic message and without an error notice.
C6_BoundThenApology ==
  \A a \in AgentRuns :
    /\ agent[a].iterations <= MAX_TOOL_ITERATIONS
    /\ agent[a].toolRounds <= agent[a].iterations
    /\ (agent[a].pc = "done" /\ agent[a].toolRounds >= 1
          /\ agent[a].toolRounds = agent[a].iterations) =>
           /\ agent[a].toolRounds = MAX_TOOL_ITERATIONS
           /\ agent[a].ui[Len(agent[a].ui)] = "APOLOGY"
           /\ "ERROR" \notin {agent[a].ui[p] : p \in 1..Len(agent[a].ui)}

\* C7: when a primary run over n identifiers has fetched them all, with
\* `failed` failed fetches, threads has n - failed entries, errors has
\* `failed` entries, and every identifier is in exactly one of the two.
C7_ThreadsPlusErrors ==
  \A s \in SearchRuns : search[s].pc = "awaitSave" =>
    /\ search[s].i = search[s].n
    /\ Len(search[s].errors) = search[s].failed
    /\ Len(search[s].threads) = search[s].n - search[s].failed
    /\ Len(search[s].threads) + Len(search[s].errors) = search[s].n

\* C8: in every replay run at most one FETCH_FEEDITEM is in flight, and the
\* fetch of item i+1 starts only after the fetch of item i has ended.
C8_OneDetailInFlight ==
  \A run \in ReplayRuns :
    /\ Cardinality(run.inflight) <= 1
    /\ \A j \in 1..(MaxIds + 1) :
         Before(run.trace, Tr("fetchEnd", j), Tr("fetchStart", j + 1))

\* a run has started the fetch of its second item
C8_Witness ==
  \E run \in ReplayRuns : run.inflight = {2} /\ run.pc = "awaitDetail"

\* C9: in every replay run each wait follows the end of the fetch of an
\* item i < n and precedes the start of the fetch of item i+1, there is
\* exactly one wait per such i, and none after the last item: a primary run
\* that has fetched all n >= 1 items has waited n - 1 times.
C9_DelayBetweenItems ==
  \A run \in ReplayRuns :
    /\ run.pc = "delay" => run.i < run.n
    /\ \A j \in 1..(MaxIds + 1) :
         /\ Cardinality(Pos(run.trace, Tr("delay", j))) <= 1
         /\ Pos(run.trace, Tr("delay", j)) # {} => j < run.n
         /\ Before(run.trace, Tr("fetchEnd", j), Tr("delay", j))
         /\ Before(run.trace, Tr("delay", j), Tr("fetchStart", j + 1))
    /\ Count(run.trace, "fetchStart") >= 1 =>
         Count(run.trace, "delay") = Count(run.trace, "fetchStart") - 1
    /\ run.pc = "awaitSave" => Count(run.trace, "delay") = run.n - 1

\* a primary run over the largest number of items has fetched them all
C9_Witness ==
  \E s \in SearchRuns :
    /\ search[s].pc = "awaitSave" /\ search[s].n = MaxIds
    /\ Count(search[s].trace, "delay") = MaxIds - 1

C11_NoRequestWithoutTemplates ==
  \A run \in ReplayRuns :
    run.pc \in {"awaitSearch", "awaitDetail", "delay"} =>
      /\ captured["searchPost"] # NoTemplate
      /\ captured["feedItem"] # NoTemplate

\* the bodies of the well-formed comment edges of a list, in order
GoodBodies(edges) ==
  LET good == SelectSeq(edges, LAMBDA e : e.tag = "comment")
  IN [i \in 1..Len(good) |-> good[i].body]

\* the bodies of extracted comments, in order
BodiesOf(comments) == [i \in 1..Len(comments) |-> comments[i].body]

\* the list at the first reply path, in priority order, whose list is not empty
RECURSIVE FirstNonEmpty(_, _)
FirstNonEmpty(paths, p) ==
  IF p > Len(paths) THEN <<>>
  ELSE IF paths[p].tag = "list" /\ paths[p].edges # <<>> THEN paths[p].edges
  ELSE FirstNonEmpty(paths, p + 1)

\* every index path to a node of a comment forest
RECURSIVE NodePaths(_)
NodePaths(comments) ==
  UNION {{<<i>>} \cup {<<i>> \o q : q \in NodePaths(comments[i].replies)} :
           i \in 1..Len(comments)}

RECURSIVE LevelsFrom(_, _)
LevelsFrom(comments, level) ==
  \A i \in 1..Len(comments) :
    /\ comments[i].level = level
    /\ LevelsFrom(comments[i].replies, level + 1)

\* C12: for a post with one top-level comment, the extracted replies are
\* those of the first reply path, in priority order, whose list is not
\* empty: an empty list at a higher-priority path hides nothing.
C12_FirstNonEmptyPath ==
  (thread.pc \in {"extracted", "counted"} /\ Len(thread.post) = 1
     /\ thread.post[1].tag = "comment") =>
    /\ Len(thread.comments) = 1
    /\ BodiesOf(thread.comments[1].replies) =
         GoodBodies(FirstNonEmpty(thread.post[1].paths, 1))

\* C13: in every extracted comment tree the roots have level 0 and each
\* reply has its parent's level plus one.
C13_LevelsFollowNesting ==
  thread.pc \in {"extracted", "counted"} => LevelsFrom(thread.comments, 0)

\* a tree with a reply to a reply has been extracted
C13_Witness ==
  /\ thread.pc = "extracted"
  /\ \E i \in 1..Len(thread.comments) :
       \E j \in 1..Len(thread.comments[i].replies) :
         /\ thread.comments[i].replies[j].replies # <<>>
         /\ thread.comments[i].replies[j].replies[1].level = 2

\* C14: countAllComments returns the number of nodes of the forest, 0 for
\* the empty forest.
C14_CountIsNodeCount ==
  thread.pc = "counted" =>
    thread.count = Cardinality(NodePaths(thread.comments))

\* a forest of MaxNodes comments, some of them replies, has been counted
C14_Witness ==
  /\ thread.pc = "counted"
  /\ thread.count = MaxNodes
  /\ Len(thread.comments) >= 2
  /\ Len(thread.comments) < MaxNodes

\* C15: extractAllComments does not fail on a malformed edge (null edge,
\* missing node, missing comment): it skips the edge and extracts the
\* well-formed top-level siblings in their order.
C15_MalformedEdgesSkipped ==
  thread.pc # "post" =>
    /\ thread.pc # "thrown"
    /\ BodiesOf(thread.comments) = GoodBodies(thread.post)

\* the steps of run a that process the tool calls of a model response: the
\* response arrives asking for tools, or a tool-invoked replay continues
ProcessesToolCalls(a) ==
  \/ agent[a].pc = "tool"
  \/ agent[a].pc = "awaitLLM" /\ agent'[a].toolRounds = agent[a].toolRounds + 1

Errors(ui) == Cardinality({p \in 1..Len(ui) : ui[p] = "ERROR"})

\* C16: a step that processes tool calls never sends the error notice: a
\* call that fails (malformed arguments, missing template, no tab, failed
\* search) leaves an error result turn and the run goes on.
C16_FailedCallsFedBack ==
  [][\A a \in AgentRuns :
       ProcessesToolCalls(a) =>
         Errors(agent'[a].ui) = Errors(agent[a].ui)]_vars

\* C17: when the next completionWithTools call is issued, the result turns
\* pushed since the latest response are those of its calls 1..asked, one
\* each, in the order the calls were returned.
C17_ResultTurnForEveryCall ==
  \A a \in AgentRuns :
    agent[a].pc = "awaitLLM" =>
      [i \in 1..Len(agent[a].results) |-> agent[a].results[i].call] =
        [i \in 1..agent[a].asked |-> i]

\* the items of the FETCH_FEEDITEM requests of a run, in the order sent
FetchStarts(trace) ==
  LET starts == SelectSeq(trace, LAMBDA e : e.what = "fetchStart")
  IN [p \in 1..Len(starts) |-> starts[p].item]

\* C18: the detail fetches of a tool-invoked replay are those of the
\* identifiers 1, 2, ... of the search response in this order, at most
\* TOOL_ID_LIMIT of them and no more than the response holds.
C18_AtMostTenFetched ==
  \A a \in AgentRuns :
    LET starts == FetchStarts(agent[a].tool.trace) IN
      /\ Len(starts) <= TOOL_ID_LIMIT
      /\ starts = [p \in 1..Len(starts) |-> p]
      /\ \A e \in {agent[a].tool.trace[p] : p \in 1..Len(agent[a].tool.trace)} :
           e.what = "found" => Len(starts) <= e.item
      /\ agent[a].tool.inflight \subseteq 1..TOOL_ID_LIMIT

\* a search returned more identifiers than the limit, and the fetch of the
\* last one within the limit is in flight
C18_Witness ==
  \E a \in AgentRuns :
    /\ Pos(agent[a].tool.trace, Tr("found", ManyIds)) # {}
    /\ Pos(agent[a].tool.trace, Tr("fetchStart", TOOL_ID_LIMIT)) # {}
    /\ agent[a].tool.pc = "awaitDetail"

\* C19: when a backend answers streamCompletion or completionWithTools of an
\* agent run with a status that is not a success, the run's catch block
\* receives an LLMProviderError with that backend's name and that status,
\* the run ends with the error notice as its last notice, and isAnalyzing is
\* false.
C19_TransportErrorEndsTurn ==
  ev.op = "rejected" =>
    LET ag == agent[ev.arg] IN
      /\ Rejected(ev.arg, ev.backend, ev.status) = ev
      /\ ag.error.name = "LLMProviderError"
      /\ ag.error.provider = ev.backend
      /\ ag.error.statusCode = ev.status
      /\ ag.pc = "done"
      /\ ag.ui # <<>> /\ ag.ui[Len(ag.ui)] = "ERROR"
      /\ ~isAnalyzing

\* the Ollama backend answered the completionWithTools call that followed a
\* tool round with status 500
C19_Witness ==
  /\ ev.op = "rejected"
  /\ ev.backend = "ollama" /\ ev.status = 500
  /\ agent[ev.arg].kind = "chat"
  /\ agent[ev.arg].toolRounds >= 1

\* a line that carries a fragment in the backend's format
WellFormedFragment(backend, line) ==
  /\ line.parses /\ line.content # ""
  /\ line.text = IF backend = "ollama" THEN "bare" ELSE "data"

\* a line that fails to parse where the backend parses it
Malformed(backend, line) ==
  IF backend = "ollama" THEN line.text # "blank" /\ ~(line.text = "bare" /\ line.parses)
  ELSE line.text = "data" /\ ~line.parses

\* the line that ends an Ollama response
Final(backend, line) ==
  backend = "ollama" /\ line.text = "bare" /\ line.parses /\ line.done

\* the fragments of the first n lines, in order
Fragments(backend, lines, n) ==
  LET frags == SelectSeq(SubSeq(lines, 1, n),
                         LAMBDA l : WellFormedFragment(backend, l))
  IN [p \in 1..Len(frags) |-> frags[p].content]

\* C20: a malformed line neither ends the stream nor costs a fragment: the
\* fragments produced are those of the well-formed lines read so far, in
\* order, and the stream ends only at the end of the body or at the line
\* that carries the backend's end mark.
C20_MalformedLinesSkipped ==
  stream.pc \in {"reading", "ended"} =>
    /\ stream.out = Fragments(stream.backend, stream.lines, stream.pos)
    /\ stream.pc = "ended" =>
         \/ stream.pos = Len(stream.lines)
         \/ Final(stream.backend, stream.lines[stream.pos])
    /\ \A p \in 1..(stream.pos - 1) : ~Final(stream.backend, stream.lines[p])

\* a stream with a malformed line between two fragments has ended
C20_Witness ==
  /\ stream.pc = "ended"
  /\ Len(stream.lines) = 3
  /\ Malformed(stream.backend, stream.lines[2])
  /\ stream.out = <<"a", "b">>

\* the texts of the content_block_delta events among the first n lines
DeltaTexts(lines, n) ==
  LET deltas == SelectSeq(SubSeq(lines, 1, n),
                          LAMBDA l : /\ l.text = "data" /\ l.parses
                                     /\ l.event = "content_block_delta"
                                     /\ l.content # "")
  IN [p \in 1..Len(deltas) |-> deltas[p].content]

\* C21: the Claude streamCompletion produces the text of each
\* content_block_delta event read so far, in arrival order, and nothing for
\* events of any other type.
C21_ClaudeDeltasOnly ==
  (stream.backend = "claude" /\ stream.pc \in {"reading", "ended"}) =>
    stream.out = DeltaTexts(stream.lines, stream.pos)

\* deltas "Hel" and "lo" followed by a stop event have produced "Hel", "lo"
C21_Witness ==
  /\ stream.pc = "ended"
  /\ stream.lines = <<ClaudeEvent("content_block_delta", "Hel"),
                      ClaudeEvent("content_block_delta", "lo"),
                      ClaudeEvent("message_stop", "")>>
  /\ stream.out = <<"Hel", "lo">>

\* the line by which the backend signals completion
CompletionSignal(backend, line) ==
  \/ backend = "openai" /\ line.text = "doneMarker"
  \/ Final(backend, line)

\* the lines read up to and including the first completion signal
UpToSignal(backend, lines, n) ==
  LET signals == {p \in 1..n : CompletionSignal(backend, lines[p])}
  IN IF signals = {} THEN n
     ELSE CHOOSE p \in signals : \A q \in signals : p <= q

\* C22: once the backend has signalled completion (OpenAI: the data: [DONE]
\* line; Ollama: a line with done set) the stream is exhausted: the
\* fragments produced are those of the lines up to the signal, and a
\* fragment that follows the signal is not produced.
C22_ExhaustedAtCompletion ==
  stream.pc \in {"reading", "ended"} =>
    stream.out = Fragments(stream.backend, stream.lines,
                           UpToSignal(stream.backend, stream.lines, stream.pos))

\* the same call as the other backend's format would carry it
SameCall(block, call) ==
  /\ block.id = call.id /\ block.name = call.name
  /\ block.type = "tool_use" => block.input.value = call.arguments.value
  /\ block.type = "function" => block.arguments.value = call.arguments.value

\* C23: for the same calls and results the OpenAI format is one assistant
\* turn carrying all calls followed by one tool-role turn per result, in
\* input order (1 + |results| turns); the Claude format is two turns, an
\* assistant turn with one tool_use block per call and a user turn with one
\* tool_result block per result.
C23_FormatsPerBackend ==
  fmt.pc = "returned" =>
    LET ms == fmt.messages
        calls == fmt.toolCalls
        rs == fmt.results IN
    /\ fmt.backend = "openai" =>
         /\ Len(ms) = 1 + Len(rs)
         /\ ms[1].role = "assistant"
         /\ Len(ms[1].tool_calls) = Len(calls)
         /\ \A i \in 1..Len(calls) :
              ms[1].tool_calls[i].type = "function" /\ SameCall(ms[1].tool_calls[i], calls[i])
         /\ \A i \in 1..Len(rs) :
              ms[1 + i] = [role |-> "tool", tool_call_id |-> rs[i].toolCallId,
                           content |-> rs[i].content]
    /\ fmt.backend = "claude" =>
         /\ Len(ms) = 2
         /\ ms[1].role = "assistant"
         /\ Len(ms[1].content) = Len(calls)
         /\ \A i \in 1..Len(calls) :
              ms[1].content[i].type = "tool_use" /\ SameCall(ms[1].content[i], calls[i])
         /\ ms[2].role = "user"
         /\ Len(ms[2].content) = Len(rs)
         /\ \A i \in 1..Len(rs) :
              ms[2].content[i] = [type |-> "tool_result", tool_use_id |-> rs[i].toolCallId,
                                  content |-> rs[i].content]

\* two calls and two different results have been formatted for OpenAI
C23_Witness ==
  /\ fmt.pc = "returned" /\ fmt.backend = "openai"
  /\ Len(fmt.toolCalls) = 2 /\ Len(fmt.results) = 2
  /\ fmt.results[1] # fmt.results[2]
  /\ Len(fmt.messages) = 3

C25_NoForbiddenHeaderInReplay ==
  request.kind # "none" =>
    /\ \A name \in request.headers : lower(name) \notin Forbidden
    /\ request.credentials = "include"

\* run s sends its COMPLETE notice in this step
SearchCompletes(s) ==
  /\ search'[s].notices # search[s].notices
  /\ search'[s].notices # <<>>
  /\ search'[s].notices[Len(search'[s].notices)] = "COMPLETE"

\* C26: the chat history and the accumulated tool-search results become
\* empty only in a step in which a primary search completes or in a
\* CLEAR_CHAT step; every other step, a primary search that aborts included,
\* leaves them as they were.
C26_EmptiedOnlyOnCompleteOrClear ==
  [][(\/ chatHistory # <<>> /\ chatHistory' = <<>>
      \/ accumulatedSearches # <<>> /\ accumulatedSearches' = <<>>)
       => (\/ ev'.op = "clearChat"
           \/ \E s \in SearchRuns : SearchCompletes(s))]_vars

\* C27: every template in the store has a defined persisted-query hash: a
\* body that parses but carries no extensions.persistedQuery.sha256Hash
\* never becomes a template.
C27_StoredTemplateHasHash ==
  \A k \in Kinds : captured[k] # NoTemplate => captured[k].hash # "undefined"

\* C28: the header map of a stored template holds none of host, connection,
\* content-length and cookie, in any letter case.
C28_StoredHeadersFiltered ==
  \A k \in Kinds : \A name \in captured[k].headers : lower(name) \notin Forbidden

\* C29: a pending body is used at most once: the header observation that
\* matches it removes it, its expiry removes it without touching the
\* templates, and a header observation for a requestId that has no pending
\* body builds no template and leaves the templates, the stored copy and
\* the readiness indicator as they were.
C29_PendingConsumedOnce ==
  [][/\ (ev'.op = "headers" /\ ev'.acc) => pending'[ev'.rid] = NoPending
     /\ ev'.op = "expire" =>
          /\ \E r \in Rids : /\ pending[r] # NoPending
                             /\ pending' = [pending EXCEPT ![r] = NoPending]
          /\ UNCHANGED <<captured, stored, badge>>
     /\ (ev'.op = "headers" /\ pending[ev'.rid] = NoPending) =>
          UNCHANGED <<pending, captured, stored, badge>>]_vars

\* a second header observation has arrived from a page tab for the
\* requestId whose first one built the searchPost template
C29_Witness ==
  /\ ev.op = "headers" /\ ev.arg = PAGE_TAB /\ ~ev.acc
  /\ pending[ev.rid] = NoPending
  /\ captured["searchPost"] # NoTemplate
  /\ captured["searchPost"].rid = ev.rid

\* C30: captured templates are never written to persistent storage: after
\* any captures and restarts, storage holds no template.
C30_StorageHoldsNoTemplate ==
  \A k \in Kinds : stored[k] = NoTemplate

\* C31: every turn list handleChatMessage builds for the provider starts
\* with a user turn, and the context (instruction block and thread corpus)
\* is on that first turn and on no other.
C31_ContextOnFirstUserTurn ==
  "messages" \in DOMAIN ev =>
    /\ ev.messages # <<>>
    /\ ev.messages[1].role = "user"
    /\ \A i \in 1..Len(ev.messages) : ev.messages[i].context <=> (i = 1)

\* C32: replay runs leave the stored templates alone: no continuation of a
\* primary or tool-invoked run changes a template, and a template that is
\* in the store is replaced only by a capture of a request of the user's own
\* browsing, never by what a run substituted into its request.
C32_RunsLeaveTemplates ==
  [][/\ ev'.op = "continued" => UNCHANGED <<captured, stored>>
     /\ \A k \in Kinds :
          (captured[k] # NoTemplate /\ captured'[k] # captured[k]) =>
            captured'[k].origin = "user"]_vars

\* the terminal notices (…_COMPLETE, …_ERROR) among the notices of a run
Terminals(ui) == {p \in 1..Len(ui) : ui[p] \in {"COMPLETE", "ERROR"}}

\* C33: an agent run that entered its try block sends exactly one terminal
\* notice, whatever way it ends: none is sent twice, and a run that has ended
\* has sent one.
C33_OneTerminalNotice ==
  \A a \in AgentRuns :
    /\ Cardinality(Terminals(agent[a].ui)) <= 1
    /\ (agent[a].pc = "done" /\ agent[a].ui # <<>>) =>
         Cardinality(Terminals(agent[a].ui)) = 1

\* C34: both busy flags are released: a primary run that is under way
\* eventually has ended with state.isRunning false, and an agent run that is
\* under way eventually has ended with state.isAnalyzing false.
C34_FlagsReleased ==
  /\ \A s \in SearchRuns :
       ActiveSearch(s) ~> (search[s].pc = "done" /\ ~isRunning)
  /\ \A a \in AgentRuns :
       (agent[a].pc \notin {"idle", "done"}) ~> (agent[a].pc = "done" /\ ~isAnalyzing)

\* a chat run has ended at the tool-iteration bound, after a tool-invoked
\* replay, and the flag is down
C34_Witness ==
  /\ agent[1].pc = "done" /\ agent[1].kind = "chat"
  /\ agent[1].iterations = MAX_TOOL_ITERATIONS
  /\ agent[1].toolRounds = MAX_TOOL_ITERATIONS
  /\ ~isAnalyzing
  /\ \E s \in SearchRuns : search[s].pc = "done" /\ ~isRunning

\* the turns a run has appended to `messages` since the last model response
RECURSIVE Pushed(_)
Pushed(results) ==
  IF results = <<>> THEN <<>>
  ELSE <<[role |-> "assistant", calls |-> Head(results).assistant],
         [role |-> "result", call |-> Head(results).call]>> \o Pushed(Tail(results))

\* C35: when the next model call is made after a response that asked for
\* k >= 1 searches, the turns appended since that response hold the
\* assistant call-turn once and one result per call, each for a call that
\* the assistant turn carries.
C35_OneCallTurnOneResultPerCall ==
  \A a \in AgentRuns :
    (agent[a].pc = "awaitLLM" /\ agent[a].asked >= 1) =>
      LET turns == Pushed(agent[a].results)
          at(role) == {p \in 1..Len(turns) : turns[p].role = role} IN
      /\ Cardinality(at("assistant")) = 1
      /\ \A c \in 1..agent[a].asked :
           Cardinality({p \in at("result") : turns[p].call = c}) = 1
      /\ \A p \in at("result") : \E q \in at("assistant") : turns[p].call \in 1..turns[q].calls

\* a chat run that has pushed its user turn and has not returned
PastUserPush(a) ==
  agent[a].kind = "chat" /\ agent[a].pc \in {"awaitLLM", "chunking", "tool"}

\* C36: a run that was in flight when the conversation was reset writes
\* nothing into the new conversation. While the one chat run of the page is
\* past its user push, an empty history means that a reset has come since
\* the run started; from then on no continuation of that run adds a turn to
\* the history or a result to the accumulated searches.
C36_NoWriteAfterReset ==
  [][\A a \in AgentRuns :
       (PastUserPush(a) /\ chatHistory = <<>> /\ ev'.op = "continued") =>
         /\ chatHistory' = <<>>
         /\ accumulatedSearches' = accumulatedSearches]_vars

\* the replay requests (FETCH_SEARCH, FETCH_FEEDITEM) that are in flight
RequestsInFlight ==
  {<<"primary", s>> : s \in {t \in SearchRuns : search[t].pc \in {"awaitSearch", "awaitDetail"}}}
  \cup {<<"tool", a>> : a \in {b \in AgentRuns :
                               agent[b].tool.pc \in {"awaitSearch", "awaitDetail"}}}

\* C37: a tool-invoked replay and a primary run never overlap: while a
\* primary run is between its first and its last request no tool-invoked
\* replay is under way, and at most one replay request is in flight.
C37_ReplaysNeverOverlap ==
  /\ Cardinality(RequestsInFlight) <= 1
  /\ \A s \in SearchRuns, a \in AgentRuns :
       ~(search[s].pc \in {"tabsQuery", "awaitSearch", "awaitDetail", "delay"}
         /\ agent[a].pc = "tool")

\* C38: whenever no agent run is active the chat history alternates user and
\* assistant turns, starting with a user turn and ending with the assistant
\* turn that answers the last user turn.
C38_HistoryAlternates ==
  (\A a \in AgentRuns : FreeAgent(a)) =>
    /\ \A i \in 1..Len(chatHistory) :
         chatHistory[i] = IF i % 2 = 1 THEN "user" ELSE "assistant"
    /\ Len(chatHistory) % 2 = 0

\* the terminal notices (COMPLETE, ERROR) among the notices of a primary run
PopupTerminals(notices) ==
  {p \in 1..Len(notices) : notices[p] \in {"COMPLETE", "ERROR"}}

\* C39: a primary run sends one terminal notice to the popup, COMPLETE or
\* ERROR and never both, and a run that has sent COMPLETE has stored its
\* result snapshot.
C39_OneNoticeAndSnapshot ==
  \A s \in SearchRuns :
    /\ Cardinality(PopupTerminals(search[s].notices)) <= 1
    /\ search[s].pc = "done" => Cardinality(PopupTerminals(search[s].notices)) = 1
    /\ (\E p \in 1..Len(search[s].notices) : search[s].notices[p] = "COMPLETE") =>
         hasSearchData

\* C40: for each backend the fragments streamCompletion produces depend on
\* the bytes of the response alone: however the transport cuts the body
\* into chunks (inside a line, inside a character, before an unterminated
\* last line), the run ends with the fragments, in the order, that the body
\* yields when it arrives as a single chunk.
C40_SplitIndependent ==
  stream.pc = "ended" => stream.st.out = WholeBody(stream.backend, stream.body)

\* a body with an unterminated last line was cut inside a line and inside
\* a character, and fragments were produced
C40_Witness ==
  /\ stream.pc = "ended"
  /\ stream.inLine /\ stream.inChar
  /\ stream.body # <<>> /\ stream.body[Len(stream.body)] # "\n"
  /\ Len(stream.st.out) >= 2

====
